---- MODULE Spec2Model ----
(***************************************************************************)
(* A model of the state synchronization engine of pyunifiprotect:          *)
(* ProtectApiClient.update(), BaseApiClient.async_connect_ws(),            *)
(* get_websocket(), check_ws(), ws_url and _process_ws_message()           *)
(* (src/pyunifiprotect/api.py), and of the saves of the NVR's custom       *)
(* doorbell messages (src/pyunifiprotect/data/nvr.py).                     *)
(*                                                                         *)
(* update() is a coroutine: it is modelled as one action per stretch of    *)
(* code between two suspension points (await of a network call).  The      *)
(* Websocket class and Bootstrap.process_ws_packet / process_event are not *)
(* part of the sources at hand; their behaviour is taken from the          *)
(* specification text.                                                     *)
(*                                                                         *)
(* An Optional value is a sequence of length <= 1: None is <<>> and a      *)
(* value v is <<v>>.  time.monotonic() and utc_now() are read from the     *)
(* same clock, counted in seconds.                                         *)
(***************************************************************************)
EXTENDS Integers, Sequences, FiniteSets, TLC

VARIABLES
    clock,            \* the time, in seconds
    port,             \* BaseApiClient._port
    bootstrap,        \* ProtectApiClient._bootstrap       (Optional)
    last_update,      \* BaseApiClient._last_update        (monotonic seconds)
    last_update_dt,   \* ProtectApiClient._last_update_dt  (Optional)
    last_ws_status,   \* BaseApiClient._last_ws_status
    websocket,        \* BaseApiClient._websocket          (Optional index into sockets)
    sockets,          \* every Websocket object created so far
    call,             \* the update() calls: position and local variables
    srvCursor,        \* the server's newest update id
    log,              \* level of the message the last check_ws() logged
    last,             \* the last step: a connect attempt, a frame, or another
    lastFetch,        \* now of the update() call that last installed a Bootstrap (Optional)
    lastPoll,         \* now_dt of the update() call whose poll last completed (Optional)
    ncalls,           \* number of update() calls started
    ws_subscriptions, \* ProtectApiClient._ws_subscriptions: the listeners, in order
    received,         \* the messages each listener was called with, in order
    handles,          \* the listeners that hold an unsubscribe callable
    busop,            \* the last operation on the subscription bus, and what it did
    auth_lock,        \* ProtectApiClient._auth_lock: an asyncio.Lock
    auth,             \* each caller's position in authenticate()
    _is_authenticated,\* ProtectApiClient._is_authenticated
    logins,           \* the login requests started and finished so far
    headers,          \* BaseApiClient.headers (Optional): the cookie of a login
    wsauth,           \* the call of the websocket's auth callback, if any
    req,              \* the api_request_raw() call in progress, and its history
    evcall,           \* the last get_events_raw()/get_events() call and its result
    srvlog,           \* the changes the server made to its entities, in order
    stream,           \* per socket: the number of the last change the server sent on it
    sy,               \* the update() call of the graph synchronization, and its history
    nvr,              \* the NVR object: its doorbell messages and a field frames change
    _update_lock,     \* NVR._update_lock: an asyncio.Lock
    saves,            \* each caller's position in add/remove_custom_doorbell_message()
    ready             \* the frames for the NVR whose handling is scheduled, in order

updVars == << clock, port, bootstrap, last_update, last_update_dt, last_ws_status,
              websocket, sockets, call, srvCursor, log, last, lastFetch, lastPoll, ncalls >>

busVars == << ws_subscriptions, received, handles, busop >>

authVars == << auth_lock, auth, _is_authenticated, logins, headers, wsauth >>

reqVars == << req >>

\* the variables of the parts that update() and the subscription bus leave alone
evVars == << evcall >>

\* the variables of the synchronization of the object graph
syncVars == << srvlog, stream, sy >>

saveVars == << nvr, _update_lock, saves, ready >>

otherVars == << authVars, reqVars, evVars, syncVars, saveVars >>

\* the variables that authenticate() leaves alone
restOfAuth == << updVars, busVars, reqVars, evVars, syncVars, saveVars >>

\* the variables that api_request_raw() leaves alone, authenticate() apart
restOfReq == << updVars, busVars, evVars, syncVars, saveVars >>

\* the variables that get_events_raw() and get_events() leave alone
restOfEvents == << updVars, busVars, authVars, reqVars, syncVars, saveVars >>

\* the variables that the saves of the NVR leave alone
restOfSave == << updVars, busVars, authVars, reqVars, evVars, syncVars >>

vars == << updVars, busVars, otherVars >>

----------------------------------------------------------------------------
(* Bounds of the model *)

MaxCalls == 3
MaxClock == 902
MaxCursor == 2
MaxEvents == 2
MaxSubs == 3
MaxAuthCalls == 4
MaxRequests == 2
MaxExtra == 2
MaxLimit == 2
MaxOffset == 1
MaxChanges == 2
MaxSyncCalls == 2
\* the saves each caller starts, and the frames for the NVR
MaxSaves == 1
MaxFrames == 2
\* the longest custom doorbell message, in characters
MAX_MESSAGE_LENGTH == 30

\* the callers of update(); the calls of Callers follow one another
AllCallers == {1, 2}
Callers == {1}
Delays == {451}
EventIds == 1 .. MaxEvents
Listeners == {1, 2}
AuthCallers == {1, 2, 3}

(* Program constants *)

NEVER_RAN == -1000
DEVICE_UPDATE_INTERVAL == 900
HOUR == 3600
PAGE == 100

None == << >>
Some(v) == << v >>

----------------------------------------------------------------------------
(* ws_url: wss://{host}[:{port}]{ws_path}[?lastUpdateId={id}] *)

_get_last_update_id(bs) ==
    IF bs = None THEN None ELSE Some(bs[1].last_update_id)

ws_url(p, bs) ==
    [ scheme |-> "wss",
      authority |-> IF p # 443 THEN << "host", p >> ELSE << "host" >>,
      path |-> "/proxy/protect/ws/updates",
      query |-> IF _get_last_update_id(bs) = None
                THEN << >>
                ELSE << "lastUpdateId", _get_last_update_id(bs)[1] >> ]

----------------------------------------------------------------------------
(* The Websocket object (pyunifiprotect.websocket.Websocket) *)

NewWebsocket(url) ==
    [ url |-> url, state |-> "disconnected", subs |-> 0 ]

Subscribe(sock) == [sock EXCEPT !.subs = @ + 1]

is_connected(sock) == sock.state = "connected"

\* what Websocket.connect() can do: connect, return False, or raise
ConnectOutcomes == {"connected", "failed", "timeout", "cancelled", "disconnect"}

ConnectRaises(o) == o \in {"timeout", "cancelled", "disconnect"}

StateAfterConnect(o) == IF o = "connected" THEN "connected" ELSE "disconnected"

----------------------------------------------------------------------------
(* The decisions of update() and async_connect_ws() *)

\* update(): the refresh timer and polling lower bound after `if force:`
ForcedLastUpdate_NoReset(force, lu) == lu

ForcedLastUpdate(force, lu) == IF force THEN NEVER_RAN ELSE lu

ForcedLastUpdateDt(force, ludt, now_dt) ==
    IF force THEN Some(now_dt - HOUR) ELSE ludt

\* update(): the condition of the full Bootstrap fetch
NeedsBootstrap(bs, now, lu) ==
    bs = None \/ now - lu > DEVICE_UPDATE_INTERVAL

\* update(): a failed `self._bootstrap = await self.get_bootstrap()` assigns nothing
BootstrapAfterFailedFetch_Reset(bs) == None

BootstrapAfterFailedFetch(bs) == bs

\* update(): start=self._last_update_dt or max_event_dt
PollStart_HourBack(ludt, now_dt) == now_dt - HOUR

PollStart(ludt, now_dt) == IF ludt = None THEN now_dt - HOUR ELSE ludt[1]

\* async_connect_ws(): if force and self._websocket is not None
MustDisconnect(force, ws) == force /\ ws # None

\* get_websocket(): if self._websocket is None
MustCreate_Always(ws) == TRUE

MustCreate(ws) == ws = None

\* update(): return None (no poll) when check_ws() holds or the Bootstrap
\* was fetched in this call
SkipsPoll_IgnoreWs(ok, bootstrap_updated) == bootstrap_updated

SkipsPoll(ok, bootstrap_updated) == ok \/ bootstrap_updated

\* async_connect_ws(): contextlib.suppress(TimeoutError, asyncio.TimeoutError,
\* asyncio.CancelledError)
Suppressed(o) == o \in {"timeout", "cancelled"}

\* check_ws(): the level of the message logged
CheckWsLog(connected, lws) ==
    IF ~connected
    THEN (IF lws THEN "warning" ELSE "debug")
    ELSE (IF ~lws THEN "info" ELSE "none")

----------------------------------------------------------------------------
(* The local variables of one update() call, with what the call did *)

IdleCall ==
    [ pc |-> "idle", force |-> FALSE, now |-> 0, bootstrap_updated |-> FALSE,
      stale |-> FALSE, entry_last_update |-> 0, entry_last_update_dt |-> None,
      entry_applied |-> << >>, connects |-> 0, old_ws |-> None,
      connect_result |-> "none", ws_ok |-> None, polled |-> FALSE,
      poll_start |-> 0, poll_end |-> 0, events |-> << >>, ret |-> "none" ]

Done(rec, r) == [rec EXCEPT !.pc = "done", !.ret = r]

TypeOK ==
    /\ clock \in 0 .. MaxClock
    /\ port \in {443, 7443}
    /\ Len(bootstrap) <= 1
    /\ last_update \in Int
    /\ Len(last_update_dt) <= 1
    /\ last_ws_status \in BOOLEAN
    /\ Len(websocket) <= 1
    /\ \A c \in AllCallers : call[c].pc \in
          {"idle", "get_bootstrap", "ws_disconnect", "ws_connect", "get_events", "done"}

\* no operation on the subscription bus
NoOp ==
    [ op |-> "none", l |-> 0, produced |-> FALSE, emits |-> 0, beh |-> << >>,
      called |-> << >>, logged |-> 0, aborted |-> FALSE, error |-> FALSE,
      begin |-> << >> ]

\* a step that is no operation on the subscription bus
NoBusOp ==
    /\ busop' = NoOp
    /\ UNCHANGED << ws_subscriptions, received, handles >>
    /\ UNCHANGED otherVars

\* a caller that is not inside authenticate()
IdleAuth ==
    [ pc |-> "idle", entry_locked |-> FALSE, seen |-> 0, woken |-> FALSE,
      logins |-> 0, ret |-> "none" ]

\* the websocket is not calling its auth callback
IdleWsAuth ==
    [ pc |-> "idle", force |-> FALSE, token_fresh |-> FALSE, done_before |-> 0,
      ret |-> "none", returned |-> << >> ]

\* no api_request_raw() call in progress; n counts the calls made
IdleReq(n) ==
    [ pc |-> "idle", n |-> n, require_auth |-> FALSE, raise_exception |-> FALSE,
      attempt |-> 0, trace |-> << >>, result |-> "none" ]

\* no get_events_raw()/get_events() call was made
NoEventsCall == [ op |-> "none" ]

\* the client's configuration: _subscribed_models and _ignore_stats
DefaultConfig == [ models |-> None, ignore_stats |-> FALSE ]

(* no update() call of the graph synchronization in progress, nothing      *)
(* received yet                                                             *)
NoSync(config) ==
    [ pc |-> "idle", force |-> FALSE, bootstrap_updated |-> FALSE, now |-> 0,
      snap |-> None, poll_start |-> 0, ret |-> "none", ncalls |-> 0,
      config |-> config, needs_refetch |-> FALSE, honoured |-> TRUE ]

\* the state of the parts outside update() and the bus after construction
(* NVR.update_all_messages(): all_messages is rebuilt from the two fixed   *)
(* messages and the custom ones                                            *)
update_all_messages(custom_messages) ==
    << "LEAVE PACKAGE AT DOOR", "DO NOT DISTURB" >> \o custom_messages

(* the NVR after the first Bootstrap: one custom doorbell message          *)
InitialNVR ==
    [ custom_messages    |-> << "hello" >>,
      all_messages       |-> update_all_messages(<< "hello" >>),
      camera_utilization |-> 0 ]

(* a caller that is in neither add_ nor remove_custom_doorbell_message()   *)
IdleSave ==
    [ pc       |-> "idle",    \* idle, wait, yield, patch, done
      op       |-> "none",    \* add or remove
      message  |-> "",
      woken    |-> FALSE,     \* the lock's release has woken this waiter
      ahead    |-> 0,         \* scheduled frame handlers that run before it resumes
      queued   |-> << >>,     \* the frames scheduled when it took the lock
      at_lock  |-> None,      \* the serialized NVR when it took the lock
      baseline |-> None,      \* data_before_changes
      diff     |-> None,      \* the body of the PATCH that save_device() sent
      at_end   |-> None,      \* the NVR when save_device() and the rebuild were over
      steps    |-> << >>,     \* what the call did under the lock, in order
      ret      |-> "none",
      calls    |-> 0 ]

InitOther ==
    /\ auth_lock = [locked |-> FALSE, waiters |-> << >>]
    /\ auth = [c \in AuthCallers |-> IdleAuth]
    /\ _is_authenticated = FALSE
    /\ logins = [started |-> 0, done |-> 0, calls |-> 0]
    /\ headers = None
    /\ wsauth = IdleWsAuth
    /\ req = IdleReq(0)
    /\ evcall = NoEventsCall
    /\ srvlog = << >>
    /\ stream = [w \in 1 .. MaxSyncCalls |-> None]
    /\ sy = NoSync(DefaultConfig)
    /\ nvr = InitialNVR
    /\ _update_lock = [locked |-> FALSE, waiters |-> << >>]
    /\ saves = [c \in AllCallers |-> IdleSave]
    /\ ready = [frames |-> << >>, scheduled |-> 0]

Init ==
    /\ clock = 0
    /\ port \in {443, 7443}
    /\ bootstrap = None
    /\ last_update = NEVER_RAN
    /\ last_update_dt = None
    /\ last_ws_status = FALSE
    /\ websocket = None
    /\ sockets = << >>
    /\ call = [c \in AllCallers |-> IdleCall]
    /\ srvCursor = 0
    /\ log = "none"
    /\ last = "other"
    /\ lastFetch = None
    /\ lastPoll = None
    /\ ncalls = 0
    /\ ws_subscriptions = << >>
    /\ received = [l \in Listeners |-> << >>]
    /\ handles = {}
    /\ busop = NoOp
    /\ InitOther

----------------------------------------------------------------------------
(* check_ws() followed by the rest of update() up to its next suspension:  *)
(* return None when the channel is connected or the Bootstrap was just     *)
(* fetched, else start get_events().  socks and ws are the values of       *)
(* sockets and websocket at that point.                                    *)

CheckWsResult(ws, socks) ==
    IF ws = None THEN FALSE ELSE is_connected(socks[ws[1]])

CheckWsAndPoll(c, rec, ws, socks, lws, ludt) ==
    LET ok == CheckWsResult(ws, socks)
        r1 == [rec EXCEPT !.ws_ok = Some(ok)]
    IN  /\ last_ws_status' = IF ws = None THEN lws ELSE ok
        /\ log' = IF ws = None THEN log ELSE CheckWsLog(ok, lws)
        /\ call' = [call EXCEPT ![c] =
              IF SkipsPoll(ok, rec.bootstrap_updated)
              THEN Done(r1, "None")
              ELSE [r1 EXCEPT !.pc = "get_events",
                              !.polled = TRUE,
                              !.poll_start = PollStart(ludt, rec.now),
                              !.poll_end = rec.now]]

(* get_websocket(), `websocket.url = self.ws_url` and the connect attempt  *)
(* of async_connect_ws(); bs is the Bootstrap held at that point.          *)
GetWebsocketAndConnect(c, rec, bs, ws, socks, ludt) ==
    LET socks1 == IF MustCreate(ws)
                  THEN Append(socks, Subscribe(NewWebsocket(ws_url(port, bs))))
                  ELSE socks
        w      == IF MustCreate(ws) THEN Len(socks1) ELSE ws[1]
        socks2 == [socks1 EXCEPT ![w].url = ws_url(port, bs)]
    IN  /\ websocket' = Some(w)
        /\ IF ~is_connected(socks2[w])
           THEN /\ last_ws_status' = FALSE
                /\ sockets' = [socks2 EXCEPT ![w].state = "connecting"]
                /\ call' = [call EXCEPT ![c] =
                      [rec EXCEPT !.pc = "ws_connect", !.connects = @ + 1]]
                /\ last' = "connect"
                /\ UNCHANGED log
           ELSE /\ sockets' = socks2
                /\ last' = "other"
                /\ CheckWsAndPoll(c, rec, Some(w), socks2, last_ws_status, ludt)

(* async_connect_ws(force) from its first line to its first suspension *)
AsyncConnectWs(c, rec, bs, ludt) ==
    IF MustDisconnect(rec.force, websocket)
    THEN /\ call' = [call EXCEPT ![c] =
               [rec EXCEPT !.pc = "ws_disconnect", !.old_ws = websocket]]
         /\ last' = "other"
         /\ UNCHANGED << websocket, sockets, last_ws_status, log >>
    ELSE GetWebsocketAndConnect(c, rec, bs, websocket, sockets, ludt)

----------------------------------------------------------------------------
(* update(force): from the call to the first suspension *)
UpdateStart(c, force) ==
    /\ call[c].pc = "idle"
    /\ ncalls < MaxCalls
    /\ ncalls' = ncalls + 1
    /\ LET now   == clock
           lu    == ForcedLastUpdate(force, last_update)
           ludt  == ForcedLastUpdateDt(force, last_update_dt, now)
           fetch == NeedsBootstrap(bootstrap, now, lu)
           rec   == [IdleCall EXCEPT
                        !.force = force, !.now = now,
                        !.bootstrap_updated = fetch,
                        !.stale = (bootstrap = None \/
                                   (lastFetch # None /\
                                    now - lastFetch[1] > DEVICE_UPDATE_INTERVAL)),
                        !.entry_last_update = last_update,
                        !.entry_last_update_dt = last_update_dt,
                        !.entry_applied =
                            IF bootstrap = None THEN << >> ELSE bootstrap[1].applied]
       IN  /\ last_update' = lu
           /\ last_update_dt' = ludt
           /\ IF fetch
              THEN /\ call' = [call EXCEPT ![c] = [rec EXCEPT !.pc = "get_bootstrap"]]
                   /\ last' = "other"
                   /\ UNCHANGED << websocket, sockets, last_ws_status, log >>
              ELSE AsyncConnectWs(c, rec, bootstrap, ludt)
    /\ UNCHANGED << clock, port, bootstrap, srvCursor, lastFetch, lastPoll >>
    /\ NoBusOp

\* update(): self._last_update_dt = now_dt after the Bootstrap fetch
LastUpdateDtAfterFetch_Kept(ludt, now_dt) == ludt

LastUpdateDtAfterFetch(ludt, now_dt) == Some(now_dt)

(* get_bootstrap() returned: install the Bootstrap, record the fetch time, *)
(* go on into async_connect_ws()                                           *)
GetBootstrapOk(c) ==
    /\ call[c].pc = "get_bootstrap"
    /\ LET bs == Some([last_update_id |-> srvCursor, applied |-> << >>])
       IN  /\ bootstrap' = bs
           /\ last_update' = call[c].now
           /\ last_update_dt' = LastUpdateDtAfterFetch(last_update_dt, call[c].now)
           /\ lastFetch' = Some(call[c].now)
           /\ lastPoll' = lastPoll
           /\ AsyncConnectWs(c, call[c], bs, Some(call[c].now))
    /\ UNCHANGED << clock, port, srvCursor, ncalls >>
    /\ NoBusOp

\* update(): what follows `await self.get_bootstrap()` runs when it returned
GoesOnAfterFetch_Always(raised) == TRUE

GoesOnAfterFetch(raised) == ~raised

(* get_bootstrap() raised: the exception leaves update() *)
GetBootstrapFail(c) ==
    /\ call[c].pc = "get_bootstrap"
    /\ bootstrap' = BootstrapAfterFailedFetch(bootstrap)
    /\ IF GoesOnAfterFetch(TRUE)
       THEN AsyncConnectWs(c, call[c], bootstrap', last_update_dt)
       ELSE /\ call' = [call EXCEPT ![c] = Done(call[c], "BootstrapError")]
            /\ last' = "other"
            /\ UNCHANGED << last_ws_status, websocket, sockets, log >>
    /\ UNCHANGED << clock, port, last_update, last_update_dt, srvCursor,
                    lastFetch, lastPoll, ncalls >>
    /\ NoBusOp

(* `await self._websocket.disconnect()` returned: forget the websocket,    *)
(* create the next one and start its connect attempt                       *)
WsDisconnected(c) ==
    /\ call[c].pc = "ws_disconnect"
    /\ LET w     == call[c].old_ws[1]
           socks == [sockets EXCEPT ![w].state = "disconnected"]
       IN  GetWebsocketAndConnect(c, call[c], bootstrap, None, socks, last_update_dt)
    /\ UNCHANGED << clock, port, bootstrap, last_update, last_update_dt,
                    srvCursor, lastFetch, lastPoll, ncalls >>
    /\ NoBusOp

(* `await websocket.connect()` ended with outcome o *)
WsConnectEnds(c, o) ==
    /\ call[c].pc = "ws_connect"
    /\ websocket # None
    /\ LET w     == websocket[1]
           socks == [sockets EXCEPT ![w].state = StateAfterConnect(o)]
           rec   == [call[c] EXCEPT !.connect_result = o]
       IN  /\ sockets' = socks
           /\ IF ConnectRaises(o) /\ ~Suppressed(o)
              THEN /\ call' = [call EXCEPT ![c] = Done(rec, "ConnectError")]
                   /\ UNCHANGED << last_ws_status, log >>
              ELSE CheckWsAndPoll(c, rec, websocket, socks, last_ws_status, last_update_dt)
    /\ last' = "other"
    /\ UNCHANGED << clock, port, bootstrap, last_update, last_update_dt,
                    websocket, srvCursor, lastFetch, lastPoll, ncalls >>
    /\ NoBusOp

----------------------------------------------------------------------------
(* Bootstrap.process_event(event), as far as the model records it: the     *)
(* events of the object graph are kept by id, in the order they came in    *)
InSeq(x, seq) == \E i \in 1 .. Len(seq) : seq[i] = x

process_event(bs, ev) ==
    IF InSeq(ev, bs.applied) THEN bs ELSE [bs EXCEPT !.applied = Append(@, ev)]

RECURSIVE ProcessEvents(_, _)
ProcessEvents(bs, evs) ==
    IF evs = << >> THEN bs
    ELSE ProcessEvents(process_event(bs, Head(evs)), Tail(evs))

\* the lists get_events() can return
EventLists ==
    {<< >>} \cup {<< e >> : e \in EventIds}
            \cup {<< p[1], p[2] >> : p \in {q \in EventIds \X EventIds : q[1] # q[2]}}

\* update(): self._last_update = now; self._last_update_dt = now_dt
LastUpdateAfterPoll(now) == now

LastUpdateDtAfterPoll_HourBack(now_dt) == Some(now_dt - HOUR)

LastUpdateDtAfterPoll(now_dt) == Some(now_dt)

(* update(): `for event in events: self.bootstrap.process_event(event)`   *)
(* holds no await: the events applied before update() can next be          *)
(* suspended are all of them                                                *)
AppliedBeforeSuspending_First(evs) ==
    IF evs = << >> THEN evs ELSE << Head(evs) >>

AppliedBeforeSuspending(evs) == evs

(* get_events() returned evs: apply them, record the sync time, return *)
GetEventsOk(c, evs) ==
    /\ call[c].pc = "get_events"
    /\ bootstrap # None
    /\ bootstrap' = Some(ProcessEvents(bootstrap[1], AppliedBeforeSuspending(evs)))
    /\ last_update' = LastUpdateAfterPoll(call[c].now)
    /\ last_update_dt' = LastUpdateDtAfterPoll(call[c].now)
    /\ call' = [call EXCEPT ![c] = Done([call[c] EXCEPT !.events = evs], "Bootstrap")]
    /\ lastPoll' = Some(call[c].now)
    /\ last' = "other"
    /\ UNCHANGED << clock, port, last_ws_status, websocket, sockets, srvCursor,
                    log, lastFetch, ncalls >>
    /\ NoBusOp

(* get_events() raised: the exception leaves update() *)
GetEventsFail(c) ==
    /\ call[c].pc = "get_events"
    /\ call' = [call EXCEPT ![c] = Done(call[c], "EventsError")]
    /\ last' = "other"
    /\ UNCHANGED << clock, port, bootstrap, last_update, last_update_dt,
                    last_ws_status, websocket, sockets, srvCursor, log,
                    lastFetch, lastPoll, ncalls >>
    /\ NoBusOp

(* the caller has the result of update(); the call's frame is gone *)
Return(c) ==
    /\ call[c].pc = "done"
    /\ call' = [call EXCEPT ![c] = IdleCall]
    /\ last' = "other"
    /\ UNCHANGED << clock, port, bootstrap, last_update, last_update_dt,
                    last_ws_status, websocket, sockets, srvCursor, log,
                    lastFetch, lastPoll, ncalls >>
    /\ NoBusOp

----------------------------------------------------------------------------
(* The push channel *)

\* Bootstrap.process_ws_packet(): the frame's cursor becomes last_update_id
process_ws_packet(bs, cursor) == [bs EXCEPT !.last_update_id = cursor]

\* _process_ws_message(): if self._websocket is not None: url = self.ws_url
UrlAfterFrame_Stale(socks, ws, p, bs) == socks

UrlAfterFrame(socks, ws, p, bs) ==
    IF ws # None THEN [socks EXCEPT ![ws[1]].url = ws_url(p, bs)] ELSE socks

\* what a listener does when it is called
Behaviours == {"ok", "raise"}

\* emit_message(): except Exception around each call of a listener
Caught_Nothing(b) == FALSE

Caught(b) == b = "raise"

\* the number of times x occurs in seq
RECURSIVE Count(_, _)
Count(x, seq) ==
    IF seq = << >> THEN 0
    ELSE (IF Head(seq) = x THEN 1 ELSE 0) + Count(x, Tail(seq))

\* the listeners that occur in the list
Registered(subs) == {subs[i] : i \in DOMAIN subs}

\* the state of emit_message()'s loop before the listener at index 1 is called
EmitStart(rcv) ==
    [ i |-> 1, received |-> rcv, called |-> << >>, logged |-> 0, aborted |-> FALSE ]

(* emit_message(): for sub in self._ws_subscriptions: try: sub(msg)         *)
(* except Exception: _LOGGER.exception(...)                                 *)
RECURSIVE EmitLoop(_, _, _, _)
EmitLoop(es, subs, msg, beh) ==
    IF es.aborted \/ es.i > Len(subs) THEN es
    ELSE LET l   == subs[es.i]
             es1 == [es EXCEPT !.received[l] = Append(@, msg),
                               !.called = Append(@, l)]
         IN  IF beh[l] = "ok"
             THEN EmitLoop([es1 EXCEPT !.i = @ + 1], subs, msg, beh)
             ELSE IF Caught(beh[l])
                  THEN EmitLoop([es1 EXCEPT !.i = @ + 1, !.logged = @ + 1],
                                subs, msg, beh)
                  ELSE [es1 EXCEPT !.aborted = TRUE]

emit_message(rcv, subs, msg, beh) == EmitLoop(EmitStart(rcv), subs, msg, beh)

(* _process_ws_message(): if processed_message is None: return; then       *)
(* self.emit_message(processed_message): the number of emissions of a frame *)
EmitsFor_Always(produced) == 1

EmitsFor(produced) == IF produced THEN 1 ELSE 0

(* socket w delivers the frame of the server's next change to its          *)
(* subscribers; process_ws_packet produces a change record or None; the    *)
(* handler fails at self.bootstrap when none is held                       *)
WsFrame(w, produced, beh) ==
    /\ w \in DOMAIN sockets
    /\ sockets[w].state = "connected"
    /\ sockets[w].subs > 0
    /\ srvCursor < MaxCursor
    /\ srvCursor' = srvCursor + 1
    /\ IF bootstrap = None
       THEN /\ ~produced
            /\ busop' = [NoOp EXCEPT !.op = "frame", !.error = TRUE, !.beh = beh]
            /\ UNCHANGED << bootstrap, sockets, received >>
       ELSE LET bs == Some(process_ws_packet(bootstrap[1], srvCursor + 1))
                n  == EmitsFor(produced)
                es == IF n = 0 THEN EmitStart(received)
                      ELSE emit_message(received, ws_subscriptions,
                                        srvCursor + 1, beh)
            IN  /\ bootstrap' = bs
                /\ sockets' = UrlAfterFrame(sockets, websocket, port, bs)
                /\ received' = es.received
                /\ busop' = [NoOp EXCEPT !.op = "frame", !.produced = produced,
                                         !.emits = n, !.beh = beh,
                                         !.called = es.called,
                                         !.logged = es.logged,
                                         !.aborted = es.aborted]
    /\ last' = "frame"
    /\ UNCHANGED << clock, port, last_update, last_update_dt, last_ws_status,
                    websocket, call, log, lastFetch, lastPoll, ncalls,
                    ws_subscriptions, handles >>
    /\ UNCHANGED otherVars

(* the server's state changes while no socket is connected to hear of it *)
ServerChange ==
    /\ \A w \in DOMAIN sockets : sockets[w].state # "connected"
    /\ srvCursor < MaxCursor
    /\ srvCursor' = srvCursor + 1
    /\ last' = "other"
    /\ UNCHANGED << clock, port, bootstrap, last_update, last_update_dt,
                    last_ws_status, websocket, sockets, call, log, lastFetch, lastPoll,
                    ncalls >>
    /\ NoBusOp

(* a transport error ends the connection of socket w *)
WsDrop(w) ==
    /\ w \in DOMAIN sockets
    /\ sockets[w].state = "connected"
    /\ sockets' = [sockets EXCEPT ![w].state = "disconnected"]
    /\ last' = "other"
    /\ UNCHANGED << clock, port, bootstrap, last_update, last_update_dt,
                    last_ws_status, websocket, call, srvCursor, log, lastFetch, lastPoll,
                    ncalls >>
    /\ NoBusOp

(* time passes *)
Tick(d) ==
    /\ clock + d <= MaxClock
    /\ clock' = clock + d
    /\ last' = "other"
    /\ UNCHANGED << port, bootstrap, last_update, last_update_dt, last_ws_status,
                    websocket, sockets, call, srvCursor, log, lastFetch, lastPoll, ncalls >>
    /\ NoBusOp

----------------------------------------------------------------------------
(* One client whose update() calls follow one another *)

Next ==
    \/ \E c \in Callers, force \in BOOLEAN : UpdateStart(c, force)
    \/ \E c \in Callers : GetBootstrapOk(c)
    \/ \E c \in Callers : GetBootstrapFail(c)
    \/ \E c \in Callers : WsDisconnected(c)
    \/ \E c \in Callers, o \in ConnectOutcomes : WsConnectEnds(c, o)
    \/ \E c \in Callers, evs \in EventLists : GetEventsOk(c, evs)
    \/ \E c \in Callers : GetEventsFail(c)
    \/ \E c \in Callers : Return(c)
    \/ \E w \in 1 .. MaxCalls, produced \in BOOLEAN,
          beh \in [Registered(ws_subscriptions) -> Behaviours] :
             WsFrame(w, produced, beh)
    \/ \E w \in 1 .. MaxCalls : WsDrop(w)
    \/ ServerChange
    \/ \E d \in Delays : Tick(d)

Spec == Init /\ [][Next]_vars

----------------------------------------------------------------------------
(* Properties of update() *)

\* C1: a call made when no Bootstrap is held, or more than 900 seconds after
\* the last full Bootstrap fetch, performs a full Bootstrap fetch.
C1_StaleCallFetches ==
    \A c \in Callers :
        call[c].pc # "idle" /\ call[c].stale => call[c].bootstrap_updated

\* C2: every update(force=True) call performs a full Bootstrap fetch, however
\* recently the previous fetch happened.
C2_ForceAlwaysFetches ==
    \A c \in Callers :
        call[c].pc # "idle" /\ call[c].force =>
            /\ call[c].bootstrap_updated
            /\ call[c].pc = "done" =>
                  \/ call[c].ret = "BootstrapError"
                  \/ lastFetch = Some(call[c].now)

\* a forced call fetching at the very time of the previous fetch
C2_Witness ==
    \E c \in Callers :
        /\ call[c].force
        /\ call[c].pc = "get_bootstrap"
        /\ bootstrap # None
        /\ lastFetch = Some(call[c].now)

\* C3: a forced call rewinds the polling lower bound to one hour before the
\* call: the forced synchronization refetches the Bootstrap and polls (in this
\* call, or with the lower bound it leaves behind) from one hour before it.
C3_ForcedPollFromHourBefore ==
    \A c \in Callers :
        (call[c].pc = "done" /\ call[c].force /\ call[c].ret \in {"None", "Bootstrap"}) =>
            /\ call[c].bootstrap_updated
            /\ \/ call[c].polled /\ call[c].poll_start = call[c].now - HOUR
               \/ last_update_dt = Some(call[c].now - HOUR)

\* C4: when the health check finds the channel connected, update() returns
\* None, asks for no events and applies none; if the Bootstrap was not fetched
\* in the call, the refresh timer and the last-sync timestamp are as before.
C4_ConnectedReturnsNone ==
    \A c \in Callers :
        (call[c].pc \in {"get_events", "done"} /\ call[c].ws_ok = Some(TRUE)) =>
            /\ call[c].pc = "done"
            /\ call[c].ret = "None"
            /\ ~call[c].polled
            /\ bootstrap # None
            /\ bootstrap[1].applied =
                  (IF call[c].bootstrap_updated THEN << >> ELSE call[c].entry_applied)
            /\ ~call[c].bootstrap_updated =>
                  /\ last_update = call[c].entry_last_update
                  /\ last_update_dt = call[c].entry_last_update_dt

\* a call that found the channel connected and did not fetch the Bootstrap
C4_Witness ==
    \E c \in Callers :
        /\ call[c].pc = "done"
        /\ call[c].ws_ok = Some(TRUE)
        /\ ~call[c].bootstrap_updated
        /\ last_update_dt # None

\* the events of the object graph after evs came in, in that order
C5_AppliedInOrder(before, evs) ==
    before \o SelectSeq(evs, LAMBDA e : ~InSeq(e, before))

\* C5: when the channel is not connected and the Bootstrap was not fetched in
\* the call, update() asks for the events from the stored last-sync timestamp
\* (one hour before now if none) to now, applies the returned events in the
\* returned order and returns the Bootstrap; when the Bootstrap was fetched in
\* the call it returns None without polling.
C5_PollingFallback ==
    \A c \in Callers :
        (call[c].pc \in {"get_events", "done"} /\ call[c].ws_ok = Some(FALSE)) =>
            IF call[c].bootstrap_updated
            THEN /\ ~call[c].polled
                 /\ call[c].pc = "done"
                 /\ call[c].ret = "None"
            ELSE /\ call[c].polled
                 /\ call[c].poll_start =
                       (IF call[c].entry_last_update_dt = None
                        THEN call[c].now - HOUR
                        ELSE call[c].entry_last_update_dt[1])
                 /\ call[c].poll_end = call[c].now
                 /\ (call[c].pc = "done" /\ call[c].ret # "EventsError") =>
                       /\ call[c].ret = "Bootstrap"
                       /\ bootstrap # None
                       /\ bootstrap[1].applied =
                             C5_AppliedInOrder(call[c].entry_applied, call[c].events)

\* a poll that returned two events, applied after an event of an earlier poll
C5_Witness ==
    \E c \in Callers :
        /\ call[c].pc = "done"
        /\ call[c].ws_ok = Some(FALSE)
        /\ call[c].ret = "Bootstrap"
        /\ Len(call[c].events) = 2
        /\ Len(call[c].entry_applied) = 1
        /\ Len(bootstrap[1].applied) = 2
        /\ call[c].poll_start < call[c].poll_end

\* C6: after a call that took the polling path the last-sync timestamp is the
\* call's now, whatever the outcome of the event fetch.
C6_PollAlwaysStamps ==
    \A c \in Callers :
        (call[c].pc = "done" /\ call[c].polled) =>
            last_update_dt = Some(call[c].now)

\* C6 (amended): after a call that took the polling path, the last-sync
\* timestamp and the refresh timer are the call's now when the event fetch
\* succeeded, and are what they were before the call when it failed.
C6_PollStampsOnSuccess ==
    \A c \in Callers :
        (call[c].pc = "done" /\ call[c].polled) =>
            IF call[c].ret = "Bootstrap"
            THEN /\ last_update_dt = Some(call[c].now)
                 /\ last_update = call[c].now
            ELSE /\ call[c].ret = "EventsError"
                 /\ last_update_dt = call[c].entry_last_update_dt
                 /\ last_update = call[c].entry_last_update

\* a poll whose event fetch failed, some time after the last sync
C6_Witness ==
    \E c \in Callers :
        /\ call[c].pc = "done"
        /\ call[c].polled
        /\ call[c].ret = "EventsError"
        /\ last_update_dt # Some(call[c].now)

\* C7: when the full Bootstrap fetch fails, the error reaches the caller, the
\* held Bootstrap (or its absence) stays as it was, and the call makes no
\* connect attempt and no event poll.
C7_FailedFetchPropagates ==
    [][ \A c \in Callers :
            (call[c].pc = "get_bootstrap" /\ call'[c].ret = "BootstrapError") =>
                /\ call'[c].pc = "done"
                /\ bootstrap' = bootstrap
                /\ websocket' = websocket
                /\ sockets' = sockets
                /\ call'[c].connects = 0
                /\ ~call'[c].polled
                /\ call'[c].ws_ok = None ]_vars

\* a failed fetch while a Bootstrap is held
C7_Witness ==
    \E c \in Callers :
        /\ call[c].pc = "done"
        /\ call[c].ret = "BootstrapError"
        /\ bootstrap # None

\* C8: a connect attempt that raises a timeout, a cancellation or a
\* protocol-level disconnect is swallowed: update() does not fail with it, the
\* health check sees the channel not connected, and update() polls (unless it
\* fetched the Bootstrap in this call).
C8_ConnectErrorsSwallowed ==
    \A c \in Callers :
        (call[c].pc = "done" /\ ConnectRaises(call[c].connect_result)) =>
            /\ call[c].ret # "ConnectError"
            /\ call[c].ws_ok = Some(FALSE)
            /\ ~call[c].bootstrap_updated => call[c].polled

\* C9: at every connect attempt and after every frame processed, the url of
\* the websocket is the one derived from the held Bootstrap's last_update_id,
\* which after a frame is the cursor that frame recorded.
C9_UrlIsCurrent ==
    /\ last \in {"connect", "frame"} =>
          /\ websocket # None
          /\ bootstrap # None
          /\ sockets[websocket[1]].url.query =
                << "lastUpdateId", bootstrap[1].last_update_id >>
          /\ sockets[websocket[1]].url.authority =
                (IF port = 443 THEN << "host" >> ELSE << "host", port >>)
    /\ last = "frame" => bootstrap[1].last_update_id = srvCursor

\* a frame was processed on a connected websocket after the Bootstrap fetch
C9_Witness ==
    /\ last = "frame"
    /\ websocket # None
    /\ sockets[websocket[1]].state = "connected"
    /\ srvCursor = 2
    /\ sockets[websocket[1]].url.query = << "lastUpdateId", 2 >>

\* C10: async_connect_ws(force=True) with an existing websocket disconnects
\* and forgets it before it creates the next one and starts its connect
\* attempt; the new websocket has the frame handler subscribed exactly once.
C10_ForceReconnect ==
    /\ \A w \in DOMAIN sockets :
          /\ sockets[w].subs = 1
          /\ (websocket = None \/ websocket[1] # w) =>
                sockets[w].state = "disconnected"
    /\ \A c \in Callers :
          /\ call[c].pc = "ws_disconnect" =>
                /\ websocket = call[c].old_ws
                /\ websocket[1] = Len(sockets)
          /\ (call[c].pc \in {"ws_connect", "get_events", "done"}
              /\ call[c].old_ws # None) =>
                /\ websocket # None
                /\ websocket[1] = call[c].old_ws[1] + 1
                /\ call[c].connects = 1

\* a forced call has disconnected the connected websocket and is connecting
\* the next one
C10_Witness ==
    \E c \in Callers :
        /\ call[c].pc = "ws_connect"
        /\ call[c].force
        /\ call[c].old_ws # None
        /\ sockets[call[c].old_ws[1]].state = "disconnected"
        /\ websocket[1] # call[c].old_ws[1]
        /\ sockets[websocket[1]].state = "connecting"
        /\ sockets[websocket[1]].subs = 1


----------------------------------------------------------------------------
(* The subscription bus: subscribe_websocket(), its unsubscribe callable,  *)
(* and the frames that _process_ws_message() emits to the listeners        *)

\* list.remove(x): the list without the first occurrence of x
RemoveFirst_Nothing(seq, x) == seq

RECURSIVE RemoveFirst(_, _)
RemoveFirst(seq, x) ==
    IF seq = << >> THEN << >>
    ELSE IF Head(seq) = x THEN Tail(seq)
         ELSE << Head(seq) >> \o RemoveFirst(Tail(seq), x)

(* subscribe_websocket(ws_callback): appends the listener and returns the  *)
(* callable that removes it                                                 *)
subscribe_websocket(l) ==
    /\ Len(ws_subscriptions) < MaxSubs
    /\ ws_subscriptions' = Append(ws_subscriptions, l)
    /\ handles' = handles \cup {l}
    /\ busop' = [NoOp EXCEPT !.op = "sub", !.l = l]
    /\ last' = "other"
    /\ UNCHANGED << clock, port, bootstrap, last_update, last_update_dt,
                    last_ws_status, websocket, sockets, call, srvCursor, log,
                    lastFetch, lastPoll, ncalls, received >>
    /\ UNCHANGED otherVars

(* _unsub_ws_callback(): self._ws_subscriptions.remove(ws_callback), which *)
(* raises ValueError when the listener is not in the list                   *)
_unsub_ws_callback(l) ==
    /\ l \in handles
    /\ IF l \in Registered(ws_subscriptions)
       THEN /\ ws_subscriptions' = RemoveFirst(ws_subscriptions, l)
            /\ busop' = [NoOp EXCEPT !.op = "unsub", !.l = l]
       ELSE /\ UNCHANGED ws_subscriptions
            /\ busop' = [NoOp EXCEPT !.op = "unsub", !.l = l, !.error = TRUE]
    /\ last' = "other"
    /\ UNCHANGED << clock, port, bootstrap, last_update, last_update_dt,
                    last_ws_status, websocket, sockets, call, srvCursor, log,
                    lastFetch, lastPoll, ncalls, received, handles >>
    /\ UNCHANGED otherVars

\* every listener returns
AllOk == [l \in Registered(ws_subscriptions) |-> "ok"]

\* _process_ws_message(): what follows process_ws_packet() runs when it returned
RunsAfterPacket_Always(raised) == TRUE

RunsAfterPacket(raised) == ~raised

(* socket w delivers a frame that cannot be decoded: WSPacket() or         *)
(* process_ws_packet() raises and the exception leaves                     *)
(* _process_ws_message(); the receive loop of the socket logs it and goes  *)
(* on with the next frame                                                   *)
WsBadFrame(w) ==
    /\ w \in DOMAIN sockets
    /\ sockets[w].state = "connected"
    /\ sockets[w].subs > 0
    /\ bootstrap # None
    /\ LET runs == RunsAfterPacket(TRUE)
           es   == IF runs
                   THEN emit_message(received, ws_subscriptions, 0, AllOk)
                   ELSE EmitStart(received)
       IN  /\ sockets' = IF runs
                         THEN UrlAfterFrame(sockets, websocket, port, bootstrap)
                         ELSE sockets
           /\ received' = es.received
           /\ busop' = [NoOp EXCEPT !.op = "badframe", !.error = TRUE,
                                    !.called = es.called]
    /\ last' = "other"
    /\ UNCHANGED << clock, port, bootstrap, last_update, last_update_dt,
                    last_ws_status, websocket, call, srvCursor, log, lastFetch, lastPoll,
                    ncalls, ws_subscriptions, handles >>
    /\ UNCHANGED otherVars

(* the client after a first update(): the Bootstrap is held and the        *)
(* Websocket is connected with _process_ws_message subscribed               *)
InitBus ==
    /\ clock = 0
    /\ port = 443
    /\ bootstrap = Some([last_update_id |-> 0, applied |-> << >>])
    /\ last_update = 0
    /\ last_update_dt = Some(0)
    /\ last_ws_status = TRUE
    /\ websocket = Some(1)
    /\ sockets = << [NewWebsocket(ws_url(port, bootstrap)) EXCEPT
                        !.state = "connected", !.subs = 1] >>
    /\ call = [c \in AllCallers |-> IdleCall]
    /\ srvCursor = 0
    /\ log = "info"
    /\ last = "other"
    /\ lastFetch = Some(0)
    /\ lastPoll = None
    /\ ncalls = 1
    /\ ws_subscriptions = << >>
    /\ received = [l \in Listeners |-> << >>]
    /\ handles = {}
    /\ busop = NoOp
    /\ InitOther

NextBus ==
    \/ \E l \in Listeners : subscribe_websocket(l)
    \/ \E l \in Listeners : _unsub_ws_callback(l)
    \/ \E w \in 1 .. MaxCalls, produced \in BOOLEAN,
          beh \in [Registered(ws_subscriptions) -> Behaviours] :
             WsFrame(w, produced, beh)
    \/ \E w \in 1 .. MaxCalls : WsBadFrame(w)

SpecBus == InitBus /\ [][NextBus]_vars

----------------------------------------------------------------------------
(* Listeners that change the subscriptions from inside their callback:     *)
(* emit_message() iterates over self._ws_subscriptions itself, so the loop *)
(* sees every remove() and append() a listener makes while it runs         *)

\* what such a listener does when it is called: it returns, it calls its own
\* unsubscribe callable, or it subscribes the other listener
LiveBehaviours == {"ok", "unsub", "sub"}

Other(l) == CHOOSE m \in Listeners : m # l

(* emit_message(): for sub in self._ws_subscriptions: the list iterator    *)
(* holds an index into the list as it is now                                *)
RECURSIVE EmitLoopLive(_, _, _)
EmitLoopLive(es, msg, beh) ==
    IF es.i > Len(es.subs) THEN es
    ELSE LET l   == es.subs[es.i]
             es1 == [es EXCEPT !.received[l] = Append(@, msg),
                               !.called = Append(@, l),
                               !.i = @ + 1]
         IN  IF beh[l] = "unsub"
             THEN EmitLoopLive([es1 EXCEPT !.subs = RemoveFirst(@, l)],
                               msg, beh)
             ELSE IF beh[l] = "sub" /\ Len(es.subs) < MaxSubs
             THEN EmitLoopLive([es1 EXCEPT !.subs = Append(@, Other(l)),
                                           !.handles = @ \cup {Other(l)}],
                               msg, beh)
             ELSE EmitLoopLive(es1, msg, beh)

(* socket w delivers the frame of the server's next change; the listeners  *)
(* called for it may unsubscribe themselves or subscribe another listener  *)
WsFrameLive(w, beh) ==
    /\ w \in DOMAIN sockets
    /\ sockets[w].state = "connected"
    /\ sockets[w].subs > 0
    /\ bootstrap # None
    /\ srvCursor < MaxCursor
    /\ srvCursor' = srvCursor + 1
    /\ LET bs == Some(process_ws_packet(bootstrap[1], srvCursor + 1))
           es == EmitLoopLive([ i |-> 1, received |-> received,
                                called |-> << >>, subs |-> ws_subscriptions,
                                handles |-> handles ],
                              srvCursor + 1, beh)
       IN  /\ bootstrap' = bs
           /\ sockets' = UrlAfterFrame(sockets, websocket, port, bs)
           /\ received' = es.received
           /\ ws_subscriptions' = es.subs
           /\ handles' = es.handles
           /\ busop' = [NoOp EXCEPT !.op = "fanout", !.produced = TRUE,
                                    !.emits = 1, !.beh = beh,
                                    !.called = es.called,
                                    !.begin = ws_subscriptions]
    /\ last' = "frame"
    /\ UNCHANGED << clock, port, last_update, last_update_dt, last_ws_status,
                    websocket, call, log, lastFetch, lastPoll, ncalls >>
    /\ UNCHANGED otherVars

NextLive ==
    \/ \E l \in Listeners : subscribe_websocket(l)
    \/ \E l \in Listeners : _unsub_ws_callback(l)
    \/ \E w \in 1 .. MaxCalls, beh \in [Listeners -> LiveBehaviours] :
          WsFrameLive(w, beh)

SpecLive == InitBus /\ [][NextLive]_vars

(* C32: a fan-out calls every listener that was registered when it began,  *)
(* once each and in the order of registration, and no other, also when a   *)
(* listener unsubscribes itself or subscribes another from its callback.   *)
C32_FanOutOverSnapshot ==
    busop.op = "fanout" => busop.called = busop.begin


\* the list holds exactly the occurrences of seq that are not listener l
Without(seq, l) == SelectSeq(seq, LAMBDA x : x # l)

\* msg repeated n times
Repeat(msg, n) == [i \in 1 .. n |-> msg]

\* C11: when a listener raises during an emission, the exception is caught
\* and logged, every registered listener is still called, in order, and the
\* exception does not leave emit_message(): the frame's step is not aborted.
C11_ListenerErrorsIsolated ==
    (busop.op = "frame" /\ busop.produced) =>
        /\ ~busop.aborted
        /\ busop.called = ws_subscriptions
        /\ busop.logged =
              Cardinality({i \in DOMAIN ws_subscriptions :
                              busop.beh[ws_subscriptions[i]] = "raise"})
        /\ bootstrap[1].last_update_id = srvCursor

C11_Witness ==
    /\ busop.op = "frame"
    /\ busop.produced
    /\ Len(ws_subscriptions) >= 2
    /\ busop.beh[ws_subscriptions[1]] = "raise"
    /\ busop.called = ws_subscriptions
    /\ busop.logged >= 1

C13_EmittedExactlyOnce ==
    [][ busop'.op = "frame" =>
           /\ busop'.emits = (IF busop'.produced THEN 1 ELSE 0)
           /\ \A l \in Listeners :
                 received'[l] = received[l] \o
                    Repeat(srvCursor',
                           IF busop'.produced
                           THEN Count(l, ws_subscriptions) ELSE 0)
      ]_vars

C13_Witness ==
    /\ busop.op = "frame"
    /\ ~busop.produced
    /\ ws_subscriptions # << >>
    /\ \E l \in Registered(ws_subscriptions) : received[l] = << 1 >>
    /\ srvCursor = 2

----------------------------------------------------------------------------
(* authenticate(): the login request is made under _auth_lock, and a       *)
(* caller that finds the lock held waits for it and returns                 *)

\* authenticate(): if self._auth_lock.locked()
ObservesAuthInProgress_Never(locked) == FALSE

ObservesAuthInProgress(locked) == locked

(* asyncio.Lock.acquire(): taken at once when the lock is free and nobody  *)
(* waits for it; otherwise the caller queues                                *)
CanAcquire(lock) == ~lock.locked /\ lock.waiters = << >>

\* asyncio.Lock.release(): the lock is free and its first waiter is woken
Released(lock) == [lock EXCEPT !.locked = FALSE]

WakeFirst(lock, au) ==
    IF lock.waiters = << >> THEN au
    ELSE [au EXCEPT ![Head(lock.waiters)].woken = TRUE]

\* authenticate(): del self.headers["cookie"] when there are headers
WithoutCookie(h) == IF h = None THEN None ELSE Some(0)

(* the caller holds the lock and awaits the login request of line 441 *)
StartLogin(au, c) == [au EXCEPT ![c].pc = "login", ![c].logins = @ + 1]

(* authenticate() from its entry to its first suspension *)
AuthEnter(c) ==
    /\ auth[c].pc = "idle"
    /\ logins.calls < MaxAuthCalls
    /\ LET au == [auth EXCEPT ![c].entry_locked = auth_lock.locked,
                              ![c].seen = logins.started]
       IN  IF ObservesAuthInProgress(auth_lock.locked)
           THEN IF CanAcquire(auth_lock)
                THEN /\ auth' = [au EXCEPT ![c].pc = "done", ![c].ret = "ok"]
                     /\ logins' = [logins EXCEPT !.calls = @ + 1]
                     /\ UNCHANGED auth_lock
                ELSE /\ auth' = [au EXCEPT ![c].pc = "wait_return"]
                     /\ auth_lock' = [auth_lock EXCEPT
                                         !.waiters = Append(@, c)]
                     /\ logins' = [logins EXCEPT !.calls = @ + 1]
           ELSE IF CanAcquire(auth_lock)
                THEN /\ auth' = StartLogin(au, c)
                     /\ auth_lock' = [auth_lock EXCEPT !.locked = TRUE]
                     /\ logins' = [logins EXCEPT !.calls = @ + 1,
                                                 !.started = @ + 1]
                ELSE /\ auth' = [au EXCEPT ![c].pc = "wait_login"]
                     /\ auth_lock' = [auth_lock EXCEPT
                                         !.waiters = Append(@, c)]
                     /\ logins' = [logins EXCEPT !.calls = @ + 1]
    /\ headers' = (IF auth'[c].pc = "login" THEN WithoutCookie(headers)
                   ELSE headers)
    /\ UNCHANGED << restOfAuth, _is_authenticated, wsauth >>

(* a woken waiter takes the lock: in the first branch it returns and       *)
(* releases it at once, in the second it starts its login                   *)
AuthWake(c) ==
    /\ auth[c].woken
    /\ LET lock == [auth_lock EXCEPT
                       !.waiters = SelectSeq(@, LAMBDA x : x # c)]
           au   == [auth EXCEPT ![c].woken = FALSE]
       IN  IF auth[c].pc = "wait_return"
           THEN /\ auth_lock' = Released(lock)
                /\ auth' = WakeFirst(lock, [au EXCEPT ![c].pc = "done",
                                                      ![c].ret = "ok"])
                /\ UNCHANGED logins
           ELSE /\ auth_lock' = [lock EXCEPT !.locked = TRUE]
                /\ auth' = StartLogin(au, c)
                /\ logins' = [logins EXCEPT !.started = @ + 1]
    /\ headers' = (IF auth'[c].pc = "login" THEN WithoutCookie(headers)
                   ELSE headers)
    /\ UNCHANGED << restOfAuth, _is_authenticated, wsauth >>

(* the login request ends: on success the session is marked authenticated; *)
(* either way async with releases the lock                                  *)
LoginEnds(c, ok) ==
    /\ auth[c].pc = "login"
    /\ _is_authenticated' = (IF ok THEN TRUE ELSE _is_authenticated)
    /\ auth_lock' = Released(auth_lock)
    /\ auth' = WakeFirst(auth_lock,
                         [auth EXCEPT ![c].pc = "done",
                                      ![c].ret = IF ok THEN "ok" ELSE "error"])
    /\ logins' = [logins EXCEPT !.done = @ + 1]
    /\ headers' = (IF ok THEN Some(logins.done + 1) ELSE headers)
    /\ UNCHANGED << restOfAuth, wsauth >>

\* the caller takes the result of its authenticate() call
AuthReturn(c) ==
    /\ auth[c].pc = "done"
    /\ auth' = [auth EXCEPT ![c] = IdleAuth]
    /\ UNCHANGED << restOfAuth, auth_lock, _is_authenticated, logins, headers,
                    wsauth >>

\* the client after construction, on the default port
InitClient == Init /\ port = 443

NextAuth ==
    \/ \E c \in AuthCallers : AuthEnter(c)
    \/ \E c \in AuthCallers : AuthWake(c)
    \/ \E c \in AuthCallers, ok \in BOOLEAN : LoginEnds(c, ok)
    \/ \E c \in AuthCallers : AuthReturn(c)

SpecAuth == InitClient /\ [][NextAuth]_vars

\* C14: at most one login request is in flight at any time; a caller that
\* entered authenticate() while the lock was held issues no login of its own
\* and returns only after the login that was in flight has finished.
C14_SingleLoginInFlight ==
    /\ Cardinality({c \in AuthCallers : auth[c].pc = "login"}) <= 1
    /\ logins.started - logins.done \in {0, 1}
    /\ \A c \in AuthCallers :
          auth[c].entry_locked =>
             /\ auth[c].logins = 0
             /\ auth[c].pc # "login"
             /\ auth[c].pc = "done" => logins.done >= auth[c].seen

C14_Witness ==
    \E c \in AuthCallers, d \in AuthCallers :
       /\ c # d
       /\ auth[c].entry_locked
       /\ auth[c].pc = "done"
       /\ auth[c].logins = 0
       /\ auth[d].logins = 1
       /\ auth[d].pc = "done"

(* C35: when authenticate() returns without raising, a login has succeeded *)
(* and the session is marked authenticated; this holds for the caller that *)
(* made the login and for a caller that waited for a login in progress.    *)
C35_ReturnMeansAuthenticated ==
    \A c \in AuthCallers :
        (auth[c].pc = "done" /\ auth[c].ret = "ok") => _is_authenticated


----------------------------------------------------------------------------
(* api_request_raw() and request(): one caller's API request, from         *)
(* ensure_authenticated() through the attempts to the handling of the      *)
(* response's status                                                        *)

\* the HTTP statuses the server answers with
Statuses == {200, 401, 403, 404, 500}

\* what one attempt of request() ends with
AttemptOutcomes ==
    {[kind |-> "response", status |-> st] : st \in Statuses}
       \cup {[kind |-> "ServerDisconnectedError", status |-> 0],
             [kind |-> "ClientError", status |-> 0],
             [kind |-> "TimeoutError", status |-> 0]}

(* is_authenticated(): the flag is set, and the session and its token      *)
(* cookie are there and not about to expire                                 *)
is_authenticated(flag, token_fresh) == flag /\ token_fresh

(* api_request_raw(): what a response of this status makes of the call *)
StatusResult_403BadRequest(status, raise_exception) ==
    IF status = 200 THEN "data"
    ELSE IF ~raise_exception THEN "None"
    ELSE IF status = 401 THEN "NotAuthorized"
    ELSE IF status >= 400 /\ status < 500 THEN "BadRequest"
    ELSE "NvrError"

StatusResult(status, raise_exception) ==
    IF status = 200 THEN "data"
    ELSE IF ~raise_exception THEN "None"
    ELSE IF status \in {401, 403} THEN "NotAuthorized"
    ELSE IF status >= 400 /\ status < 500 THEN "BadRequest"
    ELSE "NvrError"

(* api_request_raw() calls request(), which awaits ensure_authenticated()  *)
(* when authentication is required and the client is not authenticated     *)
ApiRequestStart(require_auth, raise_exception, token_fresh) ==
    /\ req.pc = "idle"
    /\ req.n < MaxRequests
    /\ req' = [req EXCEPT
                  !.n = @ + 1,
                  !.require_auth = require_auth,
                  !.raise_exception = raise_exception,
                  !.pc = IF require_auth
                            /\ ~is_authenticated(_is_authenticated, token_fresh)
                         THEN "auth" ELSE "send"]
    /\ UNCHANGED << restOfReq, authVars >>

\* ensure_authenticated(): await self.authenticate()
EnsureAuthenticated ==
    /\ req.pc = "auth"
    /\ AuthEnter(1)

\* the login request of the caller's authenticate() ends
EnsureAuthenticatedLogin(ok) ==
    /\ req.pc = "auth"
    /\ LoginEnds(1, ok)

(* authenticate() is over: the attempts start, or its error leaves          *)
(* request() and api_request_raw()                                          *)
EnsureAuthenticatedEnds ==
    /\ req.pc = "auth"
    /\ auth[1].pc = "done"
    /\ auth' = [auth EXCEPT ![1] = IdleAuth]
    /\ req' = IF auth[1].ret = "ok"
              THEN [req EXCEPT !.pc = "send",
                               !.trace = Append(@, [kind |-> "auth", status |-> 0])]
              ELSE [req EXCEPT !.pc = "done", !.result = "NvrError",
                               !.trace = Append(@, [kind |-> "auth", status |-> 0])]
    /\ UNCHANGED << restOfReq, auth_lock, _is_authenticated, logins, headers,
                    wsauth >>

(* one attempt of request()'s loop and, when it brings a response, the     *)
(* rest of api_request_raw()                                                *)
RequestAttempt(o) ==
    /\ req.pc = "send"
    /\ LET r == [req EXCEPT !.trace = Append(@, o)]
       IN  req' =
              IF o.kind = "response"
              THEN [r EXCEPT !.pc = "done",
                             !.result = StatusResult(o.status, req.raise_exception)]
              ELSE IF o.kind = "ServerDisconnectedError" /\ req.attempt = 0
                   THEN [r EXCEPT !.attempt = 1]
                   ELSE IF o.kind \in {"ServerDisconnectedError", "ClientError"}
                   THEN [r EXCEPT !.pc = "done", !.result = "NvrError"]
                   ELSE [r EXCEPT !.pc = "done", !.result = o.kind]
    /\ UNCHANGED << restOfReq, authVars >>

\* the caller takes the result of its api_request_raw() call
ApiRequestReturn ==
    /\ req.pc = "done"
    /\ req' = IdleReq(req.n)
    /\ UNCHANGED << restOfReq, authVars >>

NextRequest ==
    \/ \E ra \in BOOLEAN, rx \in BOOLEAN, tf \in BOOLEAN :
          ApiRequestStart(ra, rx, tf)
    \/ EnsureAuthenticated
    \/ \E ok \in BOOLEAN : EnsureAuthenticatedLogin(ok)
    \/ EnsureAuthenticatedEnds
    \/ \E o \in AttemptOutcomes : RequestAttempt(o)
    \/ ApiRequestReturn

SpecRequest == InitClient /\ [][NextRequest]_vars

\* the attempts request() has made in the call
Attempts == SelectSeq(req.trace, LAMBDA o : o.kind # "auth")

(* C40: request() makes at most two attempts; the second is made only      *)
(* after a server disconnect of the first; an attempt that fails otherwise *)
(* ends the call with NvrError, and no failure of the transport leaves     *)
(* request() as another exception.                                         *)
C40_AtMostOneRetry ==
    /\ Len(Attempts) <= 2
    /\ Len(Attempts) = 2 => Attempts[1].kind = "ServerDisconnectedError"
    /\ (req.pc = "done" /\ Attempts # << >>
        /\ Attempts[Len(Attempts)].kind # "response") =>
           req.result = "NvrError"
    /\ (req.pc = "done" /\ Len(Attempts) = 1) =>
           Attempts[1].kind # "ServerDisconnectedError"

----------------------------------------------------------------------------
(* The auth callback that get_websocket() hands to the Websocket: _auth()  *)

(* _auth(force): with force the cookies and the headers are cleared; then  *)
(* ensure_authenticated() logs in when is_authenticated() is False, and    *)
(* the headers are returned                                                 *)
WsAuthStart(force, token_fresh) ==
    /\ wsauth.pc = "idle"
    /\ auth[1].pc = "idle"
    /\ logins.calls < MaxAuthCalls
    /\ headers' = (IF force THEN None ELSE headers)
    /\ wsauth' =
          LET rec == [IdleWsAuth EXCEPT !.force = force,
                                        !.token_fresh = token_fresh,
                                        !.done_before = logins.done]
          IN  IF is_authenticated(_is_authenticated, token_fresh)
              THEN [rec EXCEPT !.pc = "done", !.ret = "headers",
                               !.returned = headers']
              ELSE [rec EXCEPT !.pc = "auth"]
    /\ UNCHANGED << restOfAuth, auth_lock, auth, _is_authenticated, logins >>

\* ensure_authenticated(): await self.authenticate()
WsAuthEnter ==
    /\ wsauth.pc = "auth"
    /\ AuthEnter(1)

\* the login request of the callback's authenticate() ends
WsAuthLogin(ok) ==
    /\ wsauth.pc = "auth"
    /\ LoginEnds(1, ok)

\* authenticate() is over: return self.headers, or its error leaves _auth()
WsAuthEnds ==
    /\ wsauth.pc = "auth"
    /\ auth[1].pc = "done"
    /\ auth' = [auth EXCEPT ![1] = IdleAuth]
    /\ wsauth' = IF auth[1].ret = "ok"
                 THEN [wsauth EXCEPT !.pc = "done", !.ret = "headers",
                                     !.returned = headers]
                 ELSE [wsauth EXCEPT !.pc = "done", !.ret = "error"]
    /\ UNCHANGED << restOfAuth, auth_lock, _is_authenticated, logins, headers >>

\* the websocket takes the headers
WsAuthReturn ==
    /\ wsauth.pc = "done"
    /\ wsauth' = IdleWsAuth
    /\ UNCHANGED << restOfAuth, auth_lock, auth, _is_authenticated, logins,
                    headers >>

NextWsAuth ==
    \/ \E force \in BOOLEAN, tf \in BOOLEAN : WsAuthStart(force, tf)
    \/ WsAuthEnter
    \/ \E ok \in BOOLEAN : WsAuthLogin(ok)
    \/ WsAuthEnds
    \/ WsAuthReturn

SpecWsAuth == InitClient /\ [][NextWsAuth]_vars

(* C36: the auth callback called with force=True returns headers that are  *)
(* not None and that come from a login made after the callback began.      *)
C36_ForcedAuthReturnsNewHeaders ==
    (wsauth.pc = "done" /\ wsauth.force /\ wsauth.ret = "headers") =>
        /\ wsauth.returned # None
        /\ wsauth.returned[1] > wsauth.done_before

\* the answers with status 401 or 403 that the call has received
Unauthorized(trace) ==
    SelectSeq(trace, LAMBDA e : e.kind = "response" /\ e.status \in {401, 403})

\* the steps of the call that follow its first 401/403 answer
RECURSIVE AfterUnauthorized(_)
AfterUnauthorized(trace) ==
    IF trace = << >> THEN << >>
    ELSE IF Head(trace).kind = "response" /\ Head(trace).status \in {401, 403}
         THEN Tail(trace)
         ELSE AfterUnauthorized(Tail(trace))

\* C15: a request answered with 401/403 is followed by a re-authentication
\* and exactly one retry, and NotAuthorized reaches the caller only when the
\* retry failed too, that is after two such answers.
C15_UnauthorizedRetriedOnce ==
    (req.pc = "done" /\ req.result = "NotAuthorized") =>
        Len(Unauthorized(req.trace)) = 2

\* C15 as amended: a 401/403 answer ends the call at once: nothing follows
\* it, neither a re-authentication nor a retry; the caller gets NotAuthorized
\* when raise_exception is set and None otherwise, and NotAuthorized comes
\* from nothing else.
C15_UnauthorizedSurfacesAtOnce ==
    /\ Unauthorized(req.trace) # << >> =>
          /\ req.pc = "done"
          /\ AfterUnauthorized(req.trace) = << >>
          /\ Len(Unauthorized(req.trace)) = 1
          /\ req.result =
                (IF req.raise_exception THEN "NotAuthorized" ELSE "None")
    /\ req.result = "NotAuthorized" => Unauthorized(req.trace) # << >>

C15_Witness ==
    /\ req.pc = "done"
    /\ req.require_auth
    /\ req.result = "NotAuthorized"
    /\ Len(req.trace) = 3
    /\ req.trace[1].kind = "auth"
    /\ req.trace[2].kind = "ServerDisconnectedError"
    /\ req.trace[3].status = 403


----------------------------------------------------------------------------
(* The event-listing endpoint of the server, as the client sees it *)

\* the event types the client knows, and those of them that devices produce
EventTypeValues == {"motion", "ring", "provision"}

DeviceEvents == {"motion", "ring"}

\* an event dictionary of the server; start and end are JS timestamps
RawEvent(id, start, end, type, score) ==
    [ id |-> id, start |-> start, end |-> end, type |-> type, score |-> score ]

EventPool ==
    { RawEvent(1, 100000, Some(150000), Some("motion"), 50),
      RawEvent(2, 200000, Some(250000), Some("ring"), 49),
      RawEvent(3, 300000, None, Some("bogus"), 100),
      RawEvent(4, 120000, Some(130000), Some("provision"), 100),
      RawEvent(5, 260000, Some(270000), None, 100) }

\* the events of a set, newest start first
RECURSIVE Descending(_)
Descending(S) ==
    IF S = {} THEN << >>
    ELSE LET e == CHOOSE x \in S : \A y \in S : y.start <= x.start
         IN  << e >> \o Descending(S \ {e})

\* a long list: more than one page of events, newest start first
LongList ==
    [ i \in 1 .. PAGE + MaxExtra |->
         RawEvent(10 + i, (330 - 2 * i) * 1000, Some((331 - 2 * i) * 1000),
                  Some("motion"), 60) ]

\* a long list whose first page already reaches back before the start asked
OldList ==
    [ i \in 1 .. PAGE + MaxExtra |->
         RawEvent(200 + i, (220 - 2 * i) * 1000, Some((221 - 2 * i) * 1000),
                  Some("motion"), 60) ]

\* a list of more than five pages
HugeList ==
    [ i \in 1 .. 5 * PAGE + MaxExtra |->
         RawEvent(1000 + i, (2000 - 2 * i) * 1000, Some((2001 - 2 * i) * 1000),
                  Some("motion"), 60) ]

ServerLists ==
    {Descending(S) : S \in SUBSET EventPool} \cup {LongList, OldList, HugeList}

Reverse(seq) == [i \in 1 .. Len(seq) |-> seq[Len(seq) + 1 - i]]

\* Python's seq[a:b] for 0 <= a <= b
Slice(seq, a, b) ==
    SubSeq(seq, (IF a < Len(seq) THEN a ELSE Len(seq)) + 1,
                IF b < Len(seq) THEN b ELSE Len(seq))

(* how the server treats the start and end parameters of a query: it       *)
(* ignores them, keeps the events that start in the range, or keeps those  *)
(* that overlap it                                                          *)
FilterModes == {"ignored", "by_start", "overlap"}

InRange(e, mode, start, end) ==
    CASE mode = "ignored"  -> TRUE
      [] mode = "by_start" -> /\ start # None => e.start >= start[1]
                              /\ end # None => e.start <= end[1]
      [] mode = "overlap"  -> /\ start # None =>
                                    (e.end = None \/ e.end[1] >= start[1])
                              /\ end # None => e.start <= end[1]

(* the server's answer to GET events: the events of the asked types and    *)
(* range in the asked order, from the asked offset, at most limit of them  *)
ServerQuery(srv, mode, params) ==
    LET kept    == SelectSeq(srv, LAMBDA e :
                      /\ InRange(e, mode, params.start, params.end)
                      /\ params.types # None =>
                            (e.type # None /\ e.type[1] \in params.types[1]))
        ordered == IF params.orderDirection = "DESC" THEN kept ELSE Reverse(kept)
        from    == IF params.offset = None THEN 0 ELSE params.offset[1]
        upto    == IF params.limit = None THEN Len(ordered)
                   ELSE from + params.limit[1]
    IN  Slice(ordered, from, upto)


----------------------------------------------------------------------------
(* _get_event_paginate(), get_events_raw() and get_events() *)

\* to_js_time(): a time in seconds as a JS timestamp, in milliseconds
to_js_time(t) == t * 1000

\* the events of a page up to the first that starts after end_int
ClipAtEnd(page, end_int) ==
    LET after == {i \in DOMAIN page : page[i].start > end_int}
    IN  IF after = {} THEN page
        ELSE SubSeq(page, 1, (CHOOSE i \in after : \A j \in after : i <= j) - 1)

\* the events without the trailing ones that start before start_int
TrimBeforeStart_Keep(events, start_int) == events

TrimBeforeStart(events, start_int) ==
    LET kept == {i \in DOMAIN events : events[i].start >= start_int}
    IN  IF kept = {} THEN << >>
        ELSE SubSeq(events, 1, CHOOSE i \in kept : \A j \in kept : j <= i)

(* the loop's variables before the first page; current_start = None stands *)
(* for sys.maxsize, which is later than every start                         *)
PaginateStart ==
    [ events |-> << >>, offset |-> 0, current_start |-> None,
      request_count |-> 0, logged |-> FALSE, requests |-> << >> ]

\* the start of the oldest event accumulated, if there is one
Oldest(events) ==
    IF events = << >> THEN None ELSE Some(events[Len(events)].start)

\* _get_event_paginate(): while current_start > start_int
ContinuePaging_Always(current_start, start_int) == TRUE

ContinuePaging(current_start, start_int) ==
    current_start = None \/ current_start[1] > start_int

(* _get_event_paginate(): while current_start > start_int, fetch the page  *)
(* at offset, newest first, and add it, clipped at end_int                  *)
RECURSIVE PaginateLoop(_, _, _, _, _, _)
PaginateLoop(ls, srv, mode, params, start_int, end_int) ==
    IF ~ContinuePaging(ls.current_start, start_int) THEN ls
    ELSE LET query == [params EXCEPT !.limit = Some(PAGE),
                                     !.orderDirection = "DESC",
                                     !.offset = Some(ls.offset)]
             new_events == ServerQuery(srv, mode, query)
             rc == ls.request_count + 1
             evs == ls.events \o
                       (IF end_int # None
                        THEN ClipAtEnd(new_events, end_int[1])
                        ELSE new_events)
             warned == ls.logged \/ (new_events # << >> /\ rc > 5)
             rq == Append(ls.requests,
                          [ params |-> query, got |-> Len(new_events),
                            oldest_before |-> Oldest(ls.events),
                            oldest_after |-> Oldest(evs),
                            logged |-> warned ])
         IN  IF new_events = << >>
             THEN [ls EXCEPT !.request_count = rc, !.requests = rq]
             ELSE PaginateLoop(
                         [ events |-> evs,
                           offset |-> ls.offset + PAGE,
                           current_start |->
                              IF evs # << >> THEN Some(evs[Len(evs)].start)
                              ELSE ls.current_start,
                           request_count |-> rc,
                           logged |-> warned,
                           requests |-> rq ],
                         srv, mode, params, start_int, end_int)

_get_event_paginate(srv, mode, params, start, end) ==
    LET start_int == to_js_time(start)
        end_int   == IF end # None THEN Some(to_js_time(end[1])) ELSE None
        ls        == PaginateLoop(PaginateStart, srv, mode, params,
                                  start_int, end_int)
    IN  [ls EXCEPT !.events = TrimBeforeStart(ls.events, start_int)]


(* get_events_raw(): with none of limit, start and end, the window that    *)
(* ends ten seconds from now                                                *)
DefaultWindow(now) == [ end |-> Some(now + 10), start |-> Some(now + 10 - HOUR) ]

\* get_events_raw(): if limit: events[offset : limit + offset] elif offset:
ApplyLimitOffset(events, limit, offset) ==
    LET off == IF offset = None THEN 0 ELSE offset[1]
    IN  IF limit # None /\ limit[1] # 0
        THEN Slice(events, off, limit[1] + off)
        ELSE IF off # 0 THEN Slice(events, off, Len(events))
             ELSE events

(* get_events_raw(): the query parameters, then the manual pagination when *)
(* no types are asked for and a start is known, else the server's answer   *)
get_events_raw(srv, mode, a, now) ==
    LET defaulted == a.limit = None /\ a.start = None /\ a.end = None
        start     == IF defaulted THEN DefaultWindow(now).start ELSE a.start
        end       == IF defaulted THEN DefaultWindow(now).end ELSE a.end
        params    == [ orderDirection |-> IF a.sorting = "asc" THEN "ASC" ELSE "DESC",
                       limit |-> a.limit,
                       offset |-> a.offset,
                       start |-> IF start # None THEN Some(to_js_time(start[1]))
                                 ELSE None,
                       end |-> IF end # None THEN Some(to_js_time(end[1]))
                               ELSE None,
                       types |-> a.types ]
        manual    == params.types = None /\ start # None
    IN  IF manual
        THEN LET ls     == _get_event_paginate(srv, mode, params, start[1], end)
                 events == IF a.sorting = "asc" THEN Reverse(ls.events)
                           ELSE ls.events
             IN  [ events |-> ApplyLimitOffset(events, a.limit, a.offset),
                   manual |-> TRUE, defaulted |-> defaulted, params |-> params,
                   request_count |-> ls.request_count, logged |-> ls.logged,
                   requests |-> ls.requests ]
        ELSE [ events |-> ServerQuery(srv, mode, params),
               manual |-> FALSE, defaulted |-> defaulted, params |-> params,
               request_count |-> 1, logged |-> FALSE, requests |-> << >> ]

\* get_events(): event.score >= self._minimum_score
ScoreOk_Above(score, minimum_score) == score > minimum_score

ScoreOk(score, minimum_score) == score >= minimum_score

\* create_from_unifi_dict(): the Event object of an event dictionary
create_from_unifi_dict(event_dict) ==
    [ model |-> "Event", id |-> event_dict.id, type |-> event_dict.type[1],
      score |-> event_dict.score ]

\* get_events(): is the dictionary's type missing or unknown (continue)
UnknownType(event_dict) ==
    event_dict.type = None \/ event_dict.type[1] \notin EventTypeValues

(* get_events(): the loop over the raw response: skip the dictionaries     *)
(* without a known type and what is no Event, keep the device events whose *)
(* score reaches the minimum                                                *)
FilterEvents(response, minimum_score) ==
    LET kept == SelectSeq(response, LAMBDA event_dict :
                   /\ ~UnknownType(event_dict)
                   /\ create_from_unifi_dict(event_dict).model = "Event"
                   /\ create_from_unifi_dict(event_dict).type \in DeviceEvents
                   /\ ScoreOk(create_from_unifi_dict(event_dict).score,
                              minimum_score))
    IN  [i \in 1 .. Len(kept) |-> create_from_unifi_dict(kept[i])]

\* the arguments of a call
EventArgs ==
    [ start : {None, Some(120)}, end : {None, Some(260)},
      limit : {None} \cup {Some(n) : n \in 0 .. MaxLimit},
      offset : {None} \cup {Some(n) : n \in 1 .. MaxOffset},
      types : {None, Some(DeviceEvents)},
      sorting : {"asc", "desc"} ]

\* the times the calls are made at, in seconds
Nows == {3700}

MinimumScores == {0, 50}

\* a get_events_raw() call
GetEventsRawCall(srv, mode, a, now) ==
    /\ evcall.op = "none"
    /\ evcall' = [ op |-> "raw", srv |-> srv, mode |-> mode, args |-> a,
                   now |-> now, minimum_score |-> 0,
                   raw |-> get_events_raw(srv, mode, a, now),
                   events |-> << >> ]
    /\ UNCHANGED restOfEvents

\* a get_events() call of a client with this minimum score
GetEventsCall(srv, mode, a, now, minimum_score) ==
    /\ evcall.op = "none"
    /\ LET raw == get_events_raw(srv, mode, a, now)
       IN  evcall' = [ op |-> "events", srv |-> srv, mode |-> mode, args |-> a,
                       now |-> now, minimum_score |-> minimum_score,
                       raw |-> raw,
                       events |-> FilterEvents(raw.events, minimum_score) ]
    /\ UNCHANGED restOfEvents

\* the caller takes the result
EventsReturn ==
    /\ evcall.op # "none"
    /\ evcall' = NoEventsCall
    /\ UNCHANGED restOfEvents

NextEvents ==
    \/ /\ evcall.op = "none"
       /\ \E srv \in ServerLists, mode \in FilterModes, a \in EventArgs,
             now \in Nows : GetEventsRawCall(srv, mode, a, now)
    \/ /\ evcall.op = "none"
       /\ \E srv \in ServerLists, mode \in FilterModes, a \in EventArgs,
             now \in Nows, ms \in MinimumScores :
                GetEventsCall(srv, mode, a, now, ms)
    \/ EventsReturn

SpecEvents == InitClient /\ [][NextEvents]_vars


----------------------------------------------------------------------------
(* Properties of the event queries *)

\* the ids of a list of events, in its order
Ids(events) == [i \in 1 .. Len(events) |-> events[i].id]

\* a call that took the manual pagination and asked for no limit or offset
WholeRangeCall ==
    /\ evcall.op = "raw"
    /\ evcall.raw.manual
    /\ evcall.args.limit = None
    /\ evcall.args.offset = None

\* the server events that start in the range of the query, newest first
StartsInRange ==
    SelectSeq(evcall.srv, LAMBDA e :
       /\ e.start >= evcall.raw.params.start[1]
       /\ evcall.raw.params.end # None => e.start <= evcall.raw.params.end[1])

\* C16: for a server list sorted descending by start, the pagination
\* returns, newest first, exactly the server events that start in
\* [start, end] (all that start at or after start when end is None), whether
\* or not the server applies the start/end filter itself.
C16_PaginateExactRange ==
    (WholeRangeCall /\ evcall.args.sorting = "desc") =>
        evcall.raw.events = StartsInRange

\* the query of the example: the three events, start=120, end=260
C17_Example ==
    /\ WholeRangeCall
    /\ evcall.srv = Descending({e \in EventPool : e.id \in {1, 2, 3}})
    /\ evcall.args.start = Some(120)
    /\ evcall.args.end = Some(260)

\* C17: for the events starting at 100, 200 and 300 and the query start=120,
\* end=260 the result is exactly the first two events.
C17_ReturnsFirstTwo ==
    C17_Example =>
        {evcall.raw.events[i].id : i \in DOMAIN evcall.raw.events} = {1, 2}

\* C17 as amended: the result is exactly the second event (start 200): the
\* first starts before 120 and is trimmed, the third starts after 260; and
\* the result is empty when the server answers with all three events, since
\* the page is cut at its first event, which starts after 260.
C17_ReturnsSecondOnly ==
    C17_Example =>
        Ids(evcall.raw.events) =
           (IF evcall.mode = "ignored" THEN << >> ELSE << 2 >>)

C17_Witness ==
    /\ C17_Example
    /\ evcall.mode = "overlap"
    /\ evcall.args.sorting = "asc"
    /\ Ids(evcall.raw.events) = << 2 >>

\* C18: on the manual pagination path the ascending result is the reverse
\* of the descending one, and a limit L and an offset O are applied after
\* the ordering: the result is the slice [O, O+L) of the ordered range result.
C18_AscReverseAndSlice ==
    (evcall.op = "raw" /\ evcall.raw.manual) =>
        LET desc == get_events_raw(evcall.srv, evcall.mode,
                                   [evcall.args EXCEPT !.sorting = "desc",
                                                       !.limit = None,
                                                       !.offset = None],
                                   evcall.now).events
            full == IF evcall.args.sorting = "asc" THEN Reverse(desc) ELSE desc
            O    == IF evcall.args.offset = None THEN 0
                    ELSE evcall.args.offset[1]
        IN  evcall.raw.events =
               Slice(full, O, IF evcall.args.limit = None THEN Len(full)
                              ELSE O + evcall.args.limit[1])

\* C19: a call with none of limit, start and end asks for the events of the
\* last 24 hours.
C19_DefaultsTo24Hours ==
    (evcall.op # "none" /\ evcall.raw.defaulted) =>
        evcall.raw.params.end[1] - evcall.raw.params.start[1]
           = to_js_time(24 * HOUR)

\* C20: every event get_events() returns has a known type that is a device
\* event and a score of at least the client's minimum score; every event of
\* the raw response with these properties is returned, in the response's order.
C20_GetEventsFilter ==
    evcall.op = "events" =>
        /\ \A i \in DOMAIN evcall.events :
              /\ evcall.events[i].type \in EventTypeValues \cap DeviceEvents
              /\ evcall.events[i].score >= evcall.minimum_score
        /\ Ids(evcall.events) =
              Ids(SelectSeq(evcall.raw.events, LAMBDA e :
                     /\ e.type # None
                     /\ e.type[1] \in EventTypeValues \cap DeviceEvents
                     /\ e.score >= evcall.minimum_score))

C20_Witness ==
    /\ evcall.op = "events"
    /\ evcall.minimum_score = 50
    /\ Len(evcall.raw.events) = 5
    /\ Ids(evcall.events) = << 1 >>

----------------------------------------------------------------------------
(* The requests of the catch-up pagination *)

\* the requests a manual pagination made, and the start it was asked for
PageRequests == evcall.raw.requests

RequestedStart == evcall.raw.params.start[1]

\* C30: the catch-up pagination asks for pages of PAGE events, newest first,
\* at offsets 0, PAGE, 2*PAGE, ...; it makes a request only while every page
\* before was non-empty and the oldest event accumulated starts after the
\* requested start; it ends, after however many pages, with an empty page or
\* with an accumulated event that starts at or before the requested start.
C30_PagesUntilStartOrEmpty ==
    (evcall.op # "none" /\ evcall.raw.manual) =>
        LET n == Len(PageRequests)
        IN  /\ n >= 1
            /\ n = evcall.raw.request_count
            /\ \A i \in 1 .. n :
                  /\ PageRequests[i].params.limit = Some(PAGE)
                  /\ PageRequests[i].params.orderDirection = "DESC"
                  /\ PageRequests[i].params.offset = Some((i - 1) * PAGE)
                  /\ PageRequests[i].oldest_before # None =>
                        PageRequests[i].oldest_before[1] > RequestedStart
                  /\ i < n => PageRequests[i].got > 0
            /\ \/ PageRequests[n].got = 0
               \/ /\ PageRequests[n].oldest_after # None
                  /\ PageRequests[n].oldest_after[1] <= RequestedStart

\* a list of more than five pages is read to its end
C30_Witness ==
    /\ evcall.op = "raw"
    /\ evcall.raw.manual
    /\ evcall.srv = HugeList
    /\ Len(PageRequests) > 5
    /\ PageRequests[Len(PageRequests)].got = 0
    /\ Len(evcall.raw.events) > 5 * PAGE

(* C31: in one pagination the warning about slow results is logged at most *)
(* once, it has been logged as soon as five pages were fetched and the     *)
(* start asked for is not reached, and the pagination goes on after it.    *)
C31_WarnsAfterFivePages ==
    evcall.op # "none" /\ evcall.raw.manual =>
        /\ \A i, j \in 1 .. Len(PageRequests) :
               (i <= j /\ PageRequests[i].logged) => PageRequests[j].logged
        /\ (/\ Len(PageRequests) >= 5
            /\ PageRequests[5].got > 0
            /\ ContinuePaging(PageRequests[5].oldest_after, RequestedStart))
               => PageRequests[5].logged
        /\ \A i \in 1 .. Len(PageRequests) :
               (/\ PageRequests[i].logged
                /\ i > 1 => ~PageRequests[i - 1].logged
                /\ ContinuePaging(PageRequests[i].oldest_after, RequestedStart))
                   => i < Len(PageRequests)

----------------------------------------------------------------------------
(* The polling windows across update() calls *)

\* the later of two times, of which the first may be missing
Later(t, u) == IF t = None \/ t[1] < u THEN u ELSE t[1]

\* update() asks for the events of a window in this step
PollStarts(c) == ~call[c].polled /\ call'[c].polled

(* C37: every poll asks for the events from the end of the previous        *)
(* completed poll, or from the time of the last Bootstrap fetch if that is *)
(* later, up to the call's now: the windows leave no gap after the last    *)
(* full fetch, whatever calls failed or were forced in between.            *)
C37_PollWindowsLeaveNoGap ==
    [][\A c \in Callers :
          PollStarts(c) =>
              /\ lastFetch # None
              /\ call'[c].poll_start = Later(lastPoll, lastFetch[1])
              /\ call'[c].poll_start <= call'[c].poll_end
              /\ call'[c].poll_end = call'[c].now]_vars

\* a second poll goes on from the end of the first
C37_Witness ==
    \E c \in Callers :
        /\ call[c].pc = "get_events"
        /\ lastPoll # None
        /\ lastFetch # None
        /\ lastPoll[1] > lastFetch[1]
        /\ call[c].poll_start = lastPoll[1]
        /\ call[c].poll_start < call[c].poll_end

(* C38: update() creates and connects a websocket only while a Bootstrap   *)
(* is held, a held Bootstrap is never reset to none, and so the frame      *)
(* handler never fails for want of a Bootstrap.                            *)
C38_WebsocketOnlyWithBootstrap ==
    [][/\ sockets' # sockets => bootstrap' # None
       /\ bootstrap # None => bootstrap' # None
       /\ (sockets # << >> \/ websocket # None) => bootstrap # None
       /\ busop'.op = "frame" => ~busop'.error]_vars

\* a frame is handled after a call whose Bootstrap fetch failed
C38_Witness ==
    /\ busop.op = "frame"
    /\ ~busop.error
    /\ bootstrap # None
    /\ \E w \in DOMAIN sockets : sockets[w].state = "connected"
    /\ \E c \in Callers : call[c].pc = "done" /\ call[c].ret = "BootstrapError"

----------------------------------------------------------------------------
(* Two tasks that call update() on one client: their calls overlap at the  *)
(* suspension points                                                        *)

NextConcurrent ==
    \/ \E c \in AllCallers, force \in BOOLEAN : UpdateStart(c, force)
    \/ \E c \in AllCallers : GetBootstrapOk(c)
    \/ \E c \in AllCallers : GetBootstrapFail(c)
    \/ \E c \in AllCallers : WsDisconnected(c)
    \/ \E c \in AllCallers, o \in ConnectOutcomes : WsConnectEnds(c, o)
    \/ \E c \in AllCallers, evs \in EventLists : GetEventsOk(c, evs)
    \/ \E c \in AllCallers : GetEventsFail(c)
    \/ \E c \in AllCallers : Return(c)
    \/ \E w \in 1 .. MaxCalls, produced \in BOOLEAN,
          beh \in [Registered(ws_subscriptions) -> Behaviours] :
             WsFrame(w, produced, beh)
    \/ \E w \in 1 .. MaxCalls : WsDrop(w)
    \/ ServerChange

SpecConcurrent == InitClient /\ [][NextConcurrent]_vars

\* the websockets that are connected and deliver their frames to the handler
Delivering ==
    {w \in DOMAIN sockets : sockets[w].state = "connected" /\ sockets[w].subs > 0}

(* C33: however the update() calls of two tasks overlap, at most one       *)
(* websocket of the client is connected with the frame handler subscribed, *)
(* and every websocket the client no longer refers to is disconnected.     *)
C33_OneLiveWebsocket ==
    /\ Cardinality(Delivering) <= 1
    /\ \A w \in DOMAIN sockets :
          (websocket = None \/ websocket[1] # w) =>
              sockets[w].state = "disconnected"

----------------------------------------------------------------------------
(* The polling path and the frame handler *)

\* C28: the step of update() in which get_events() returns applies every
\* fetched event and ends the call: the frame handler does not run between
\* the first and the last process_event, and no step is both a step of the
\* frame handler and a step of an update() call.
C28_PollAppliesWithoutSuspending ==
    [][ /\ \A c \in Callers :
              (call[c].pc = "get_events" /\ bootstrap' # bootstrap) =>
                  /\ call'[c].pc = "done"
                  /\ \A i \in DOMAIN call'[c].events :
                        InSeq(call'[c].events[i], bootstrap'[1].applied)
                  /\ bootstrap'[1].last_update_id = bootstrap[1].last_update_id
                  /\ last' # "frame"
        /\ last' = "frame" => call' = call
      ]_vars

C28_Witness ==
    /\ call[1].pc = "done"
    /\ call[1].ret = "Bootstrap"
    /\ Len(call[1].events) = 2
    /\ bootstrap[1].applied = call[1].events
    /\ bootstrap[1].last_update_id = 1

----------------------------------------------------------------------------
(* The health check across update() calls *)

\* a step in which update() runs check_ws()
ChecksWs(c) == call[c].ws_ok = None /\ call'[c].ws_ok # None

\* C29: a check_ws() that finds the push channel disconnected logs at WARNING
\* when the check before it found the channel connected (here: the check
\* before it logged the re-connection), and at DEBUG on the further checks.
C29_WarningOnTransitionEdge ==
    [][\A c \in Callers :
          (ChecksWs(c) /\ call'[c].ws_ok = Some(FALSE)) =>
              log' = (IF log \in {"info"} THEN "warning" ELSE "debug")]_vars

----------------------------------------------------------------------------
(* The object graph.  The server holds entities and changes them one       *)
(* change at a time; its n-th change has the update id n.  Time is counted *)
(* by the server's changes: the instant at which n changes were made is    *)
(* 2n, and the n-th change is made at 2n - 1.                              *)

EntityIds == {1, 2, 3}

ModelOf(id) == IF id = 1 THEN "camera" ELSE "event"

Entity(model, v, stats, start) ==
    [ model |-> model, v |-> v, stats |-> stats, start |-> start ]

\* the entities of the server before its first change
InitialGraph ==
    [ id \in EntityIds |->
         IF id = 1 THEN Some(Entity("camera", 0, 0, 0)) ELSE None ]

TimeAfter(n) == 2 * n

TimeOf(n) == 2 * n - 1

\* the number of the change that was made at time t
ChangeAt(t) == (t + 1) \div 2

\* a change of the server: its n-th, to entity id
Change(action, id, field, n) ==
    [ action |-> action, id |-> id, field |-> field,
      val |-> IF action = "REMOVE" THEN 0 ELSE n, n |-> n ]

(* the changes the server makes: it updates the stats of the camera, opens *)
(* an event, updates or removes the first event                             *)
ChangePool(n) ==
    { Change("UPDATE", 1, "stats", n), Change("ADD", 2, "all", n),
      Change("ADD", 3, "all", n), Change("UPDATE", 2, "v", n),
      Change("REMOVE", 2, "none", n) }

\* the changes the server can make to the graph g as its n-th change
Changes(g, n) ==
    { ch \in ChangePool(n) :
         CASE ch.action = "ADD" ->
                 g[ch.id] = None /\ (ch.id = 3 => g[2] # None)
           [] ch.id = 1 -> TRUE
           [] OTHER -> g[2] # None /\ g[3] = None }

\* the entity a change results in, given the entity before it
Changed(old, ch) ==
    CASE ch.action = "ADD" ->
            Some(Entity(ModelOf(ch.id), ch.val, 0, TimeOf(ch.n)))
      [] ch.action = "UPDATE" ->
            IF ch.field = "v" THEN Some([old[1] EXCEPT !.v = ch.val])
            ELSE Some([old[1] EXCEPT !.stats = ch.val])
      [] ch.action = "REMOVE" -> None

\* the server's graph after the first n changes of its log
RECURSIVE GraphAt(_, _)
GraphAt(slog, n) ==
    IF n = 0 THEN InitialGraph
    ELSE LET g == GraphAt(slog, n - 1)
         IN  [g EXCEPT ![slog[n].id] = Changed(g[slog[n].id], slog[n])]

(* the server's answer to the event listing: the events it holds that      *)
(* started in [start, end], oldest first                                    *)
ServerEvents(slog, start, end) ==
    LET g == GraphAt(slog, Len(slog))
        listed(id) == /\ g[id] # None
                      /\ g[id][1].model = "event"
                      /\ start <= g[id][1].start
                      /\ g[id][1].start <= end
    IN  (IF listed(2) THEN << [id |-> 2, entity |-> g[2][1]] >> ELSE << >>)
        \o (IF listed(3) THEN << [id |-> 3, entity |-> g[3][1]] >> ELSE << >>)

----------------------------------------------------------------------------
(* Bootstrap.process_ws_packet(packet, models, ignore_stats) on the graph  *)

\* the fields in which two entities differ
ChangedFields(old, new) ==
    {f \in {"v", "stats", "start"} : old[f] # new[f]}

\* the fields of a change that count for the emission
Counted(fields, ignore_stats) ==
    IF ignore_stats THEN fields \ {"stats"} ELSE fields

\* is the emission for a model suppressed by the subscribed models
SuppressedModel(model, models) == models # None /\ model \notin models[1]

\* a suppressed change is stored all the same
Stores_Unsuppressed(suppressed) == ~suppressed

Stores(suppressed) == TRUE

\* UPDATE and REMOVE of an entity that is not held are dropped
Dropped(old, ch) == ch.action \in {"UPDATE", "REMOVE"} /\ old = None

(* the Bootstrap after the frame of change ch, and the message for the     *)
(* listeners, if there is one                                               *)
apply(bs, ch, config) ==
    LET old        == bs.graph[ch.id]
        new        == Changed(old, ch)
        suppressed == SuppressedModel(ModelOf(ch.id), config.models)
        fields     == IF old = None \/ new = None THEN {"v", "stats", "start"}
                      ELSE ChangedFields(old[1], new[1])
        counted    == Counted(fields, config.ignore_stats)
        stored     == IF Stores(suppressed)
                      THEN [bs EXCEPT !.graph[ch.id] = new] ELSE bs
    IN  IF Dropped(old, ch)
        THEN [ bootstrap |-> bs, message |-> None ]
        ELSE [ bootstrap |-> process_ws_packet(stored, ch.n),
               message |-> IF suppressed \/ counted = {} THEN None
                           ELSE Some([ src |-> "ws", id |-> ch.id, n |-> ch.n ]) ]

(* Bootstrap.process_event(event) on the graph: the event is stored, and   *)
(* the listeners are told of it                                             *)
EmitsPerEvent_None(event) == 0

EmitsPerEvent(event) == 1

StoreEvent(bs, ev) ==
    [process_event(bs, ev.id) EXCEPT !.graph[ev.id] = Some(ev.entity)]

RECURSIVE StoreEvents(_, _)
StoreEvents(bs, evs) ==
    IF evs = << >> THEN bs ELSE StoreEvents(StoreEvent(bs, Head(evs)), Tail(evs))

\* the messages of the polled events, one event after the other
RECURSIVE EmitEvents(_, _)
EmitEvents(rcv, evs) ==
    IF evs = << >> THEN rcv
    ELSE EmitEvents(
            IF EmitsPerEvent(Head(evs)) = 0 THEN rcv
            ELSE emit_message(rcv, ws_subscriptions,
                              [ src |-> "poll", id |-> Head(evs).id,
                                n |-> ChangeAt(Head(evs).entity.start) ],
                              AllOk).received,
            Tail(evs))

----------------------------------------------------------------------------
(* update() with the object graph: the full fetch, the push channel with   *)
(* the backlog since the cursor of the connect URL, the polling fallback   *)

\* the variables this part leaves alone
restOfSync ==
    << clock, port, last_update, call, log, last, lastFetch, lastPoll, ncalls,
       ws_subscriptions, handles, busop, authVars, reqVars, evVars,
       saveVars >>

\* seconds since _last_update, as far as the refresh interval goes
SinceLastUpdate(elapsed) == IF elapsed THEN DEVICE_UPDATE_INTERVAL + 1 ELSE 0

SyncDone(rec, r) == [rec EXCEPT !.pc = "done", !.ret = r]

(* check_ws() and the rest of update() up to get_events() *)
SyncCheckWs(rec, ws, socks, ludt) ==
    LET ok == CheckWsResult(ws, socks)
    IN  /\ last_ws_status' = ok
        /\ sy' = IF SkipsPoll(ok, rec.bootstrap_updated)
                 THEN SyncDone(rec, "None")
                 ELSE [rec EXCEPT !.pc = "get_events",
                                  !.poll_start = PollStart(ludt, rec.now)]

(* async_connect_ws(force) up to `await websocket.connect()`; the await of *)
(* disconnect() is taken together with what follows it                      *)
SyncAsyncConnectWs(rec, bs, ludt) ==
    LET dis    == MustDisconnect(rec.force, websocket)
        socks0 == IF dis
                  THEN [sockets EXCEPT ![websocket[1]].state = "disconnected"]
                  ELSE sockets
        ws0    == IF dis THEN None ELSE websocket
        socks1 == IF MustCreate(ws0)
                  THEN Append(socks0, Subscribe(NewWebsocket(ws_url(port, bs))))
                  ELSE socks0
        w      == IF MustCreate(ws0) THEN Len(socks1) ELSE ws0[1]
        socks2 == [socks1 EXCEPT ![w].url = ws_url(port, bs)]
    IN  /\ websocket' = Some(w)
        /\ stream' = IF dis THEN [stream EXCEPT ![websocket[1]] = None] ELSE stream
        /\ IF ~is_connected(socks2[w])
           THEN /\ last_ws_status' = FALSE
                /\ sockets' = [socks2 EXCEPT ![w].state = "connecting"]
                /\ sy' = [rec EXCEPT !.pc = "ws_connect"]
           ELSE /\ sockets' = socks2
                /\ SyncCheckWs(rec, Some(w), socks2, ludt)

(* update(force) from the call to its first suspension; elapsed says       *)
(* whether the refresh interval has passed since the last full fetch        *)
SyncUpdateStart(force, elapsed) ==
    /\ sy.pc = "idle"
    /\ sy.ncalls < MaxSyncCalls
    /\ LET now  == TimeAfter(Len(srvlog))
           ludt == ForcedLastUpdateDt(force, last_update_dt, now)
           fetch == NeedsBootstrap(bootstrap, SinceLastUpdate(elapsed),
                                   ForcedLastUpdate(force, 0))
           rec  == [sy EXCEPT !.ncalls = @ + 1, !.force = force, !.now = now,
                              !.bootstrap_updated = fetch]
       IN  /\ last_update_dt' = ludt
           /\ IF fetch
              THEN /\ sy' = [rec EXCEPT !.pc = "get_bootstrap"]
                   /\ UNCHANGED << websocket, sockets, last_ws_status, stream >>
              ELSE SyncAsyncConnectWs(rec, bootstrap, ludt)
    /\ UNCHANGED << bootstrap, srvCursor, srvlog, received >>
    /\ UNCHANGED restOfSync

\* the server answers the Bootstrap request with its state of this moment
SyncServeBootstrap ==
    /\ sy.pc = "get_bootstrap"
    /\ sy.snap = None
    /\ sy' = [sy EXCEPT !.snap = Some(Len(srvlog))]
    /\ UNCHANGED << bootstrap, last_update_dt, last_ws_status, websocket, sockets,
                    srvCursor, srvlog, stream, received >>
    /\ UNCHANGED restOfSync

(* get_bootstrap() returned: install the Bootstrap, go on into             *)
(* async_connect_ws()                                                       *)
SyncGetBootstrapOk ==
    /\ sy.pc = "get_bootstrap"
    /\ sy.snap # None
    /\ LET bs  == Some([ last_update_id |-> sy.snap[1], applied |-> << >>,
                         graph |-> GraphAt(srvlog, sy.snap[1]) ])
           rec == [sy EXCEPT !.needs_refetch = FALSE]
       IN  /\ bootstrap' = bs
           /\ last_update_dt' = Some(sy.now)
           /\ SyncAsyncConnectWs(rec, bs, Some(sy.now))
    /\ UNCHANGED << srvCursor, srvlog, received >>
    /\ UNCHANGED restOfSync

(* what the server does with a connect request: it accepts it and sends    *)
(* the changes after the cursor of the URL ("connected"); or it cannot     *)
(* honour the cursor, and accepts the connection without the backlog       *)
(* ("silent") or refuses it, which is a failed attempt to the client; or   *)
(* the attempt fails for another reason.  A cursor the server could not    *)
(* honour is not honoured later either.                                     *)
SyncConnectOutcomes == {"connected", "silent", "failed"}

CursorOf(url) == IF url.query = << >> THEN None ELSE Some(url.query[2])

(* `await websocket.connect()` ended with outcome o *)
SyncConnectEnds(o) ==
    /\ sy.pc = "ws_connect"
    /\ websocket # None
    /\ LET w      == websocket[1]
           cursor == CursorOf(sockets[w].url)
           up     == o \in {"connected", "silent"}
           socks  == [sockets EXCEPT ![w].state =
                         IF up THEN "connected" ELSE "disconnected"]
           rec    == [sy EXCEPT !.needs_refetch = @ \/ o = "silent",
                                !.honoured = @ /\ o # "silent"]
       IN  /\ cursor # None
           /\ o = "silent" => cursor[1] < Len(srvlog)
           /\ o = "connected" =>
                 (sy.needs_refetch => cursor[1] = Len(srvlog))
           /\ sockets' = socks
           /\ stream' = [stream EXCEPT ![w] =
                 CASE o = "connected" -> Some(cursor[1])
                   [] o = "silent"    -> Some(Len(srvlog))
                   [] OTHER           -> None]
           /\ SyncCheckWs(rec, websocket, socks, last_update_dt)
    /\ UNCHANGED << bootstrap, last_update_dt, websocket, srvCursor, srvlog,
                    received >>
    /\ UNCHANGED restOfSync

(* get_events() returned: apply the events one after the other, record the *)
(* sync time, return the Bootstrap                                          *)
SyncGetEventsOk ==
    /\ sy.pc = "get_events"
    /\ bootstrap # None
    /\ LET events == ServerEvents(srvlog, sy.poll_start, sy.now)
       IN  /\ bootstrap' = Some(StoreEvents(bootstrap[1], events))
           /\ received' = EmitEvents(received, events)
           /\ sy' = SyncDone(sy, "Bootstrap")
    /\ last_update_dt' = LastUpdateDtAfterPoll(sy.now)
    /\ UNCHANGED << last_ws_status, websocket, sockets, srvCursor, srvlog, stream >>
    /\ UNCHANGED restOfSync

\* the caller has the result of update()
SyncReturn ==
    /\ sy.pc = "done"
    /\ sy' = [NoSync(sy.config) EXCEPT !.ncalls = sy.ncalls,
                                        !.needs_refetch = sy.needs_refetch,
                                        !.honoured = sy.honoured]
    /\ UNCHANGED << bootstrap, last_update_dt, last_ws_status, websocket, sockets,
                    srvCursor, srvlog, stream, received >>
    /\ UNCHANGED restOfSync

(* socket w delivers the frame of the next change of its stream to         *)
(* _process_ws_message()                                                    *)
SyncFrame(w) ==
    /\ w \in DOMAIN sockets
    /\ sockets[w].state = "connected"
    /\ stream[w] # None
    /\ stream[w][1] < Len(srvlog)
    /\ bootstrap # None
    /\ LET ch == srvlog[stream[w][1] + 1]
           r  == apply(bootstrap[1], ch, sy.config)
       IN  /\ stream' = [stream EXCEPT ![w] = Some(ch.n)]
           /\ bootstrap' = Some(r.bootstrap)
           /\ sockets' = UrlAfterFrame(sockets, websocket, port, Some(r.bootstrap))
           /\ received' =
                 IF EmitsFor(r.message # None) = 0 THEN received
                 ELSE emit_message(received, ws_subscriptions, r.message[1],
                                   AllOk).received
    /\ UNCHANGED << last_update_dt, last_ws_status, websocket, srvCursor, srvlog,
                    sy >>
    /\ UNCHANGED restOfSync

\* a transport error ends the connection of socket w
SyncDrop(w) ==
    /\ w \in DOMAIN sockets
    /\ sockets[w].state = "connected"
    /\ sockets' = [sockets EXCEPT ![w].state = "disconnected"]
    /\ stream' = [stream EXCEPT ![w] = None]
    /\ UNCHANGED << bootstrap, last_update_dt, last_ws_status, websocket,
                    srvCursor, srvlog, received, sy >>
    /\ UNCHANGED restOfSync

\* the server changes an entity
SyncServerChange(ch) ==
    /\ Len(srvlog) < MaxChanges
    /\ ch \in Changes(GraphAt(srvlog, Len(srvlog)), Len(srvlog) + 1)
    /\ srvlog' = Append(srvlog, ch)
    /\ srvCursor' = srvCursor + 1
    /\ UNCHANGED << bootstrap, last_update_dt, last_ws_status, websocket, sockets,
                    stream, sy, received >>
    /\ UNCHANGED restOfSync

\* the configurations of the client
SyncConfigs ==
    { DefaultConfig, [ models |-> Some({"event"}), ignore_stats |-> TRUE ] }

\* a client that one listener has subscribed to
InitSync ==
    /\ clock = 0
    /\ port = 443
    /\ bootstrap = None
    /\ last_update = NEVER_RAN
    /\ last_update_dt = None
    /\ last_ws_status = FALSE
    /\ websocket = None
    /\ sockets = << >>
    /\ call = [c \in AllCallers |-> IdleCall]
    /\ srvCursor = 0
    /\ log = "none"
    /\ last = "other"
    /\ lastFetch = None
    /\ lastPoll = None
    /\ ncalls = 0
    /\ ws_subscriptions = << 1 >>
    /\ received = [l \in Listeners |-> << >>]
    /\ handles = {1}
    /\ busop = NoOp
    /\ auth_lock = [locked |-> FALSE, waiters |-> << >>]
    /\ auth = [c \in AuthCallers |-> IdleAuth]
    /\ _is_authenticated = FALSE
    /\ logins = [started |-> 0, done |-> 0, calls |-> 0]
    /\ headers = None
    /\ wsauth = IdleWsAuth
    /\ req = IdleReq(0)
    /\ evcall = NoEventsCall
    /\ srvlog = << >>
    /\ stream = [w \in 1 .. MaxSyncCalls |-> None]
    /\ sy \in {NoSync(config) : config \in SyncConfigs}
    /\ nvr = InitialNVR
    /\ _update_lock = [locked |-> FALSE, waiters |-> << >>]
    /\ saves = [c \in AllCallers |-> IdleSave]
    /\ ready = [frames |-> << >>, scheduled |-> 0]

NextSync ==
    \/ \E force \in BOOLEAN, elapsed \in BOOLEAN : SyncUpdateStart(force, elapsed)
    \/ SyncServeBootstrap
    \/ SyncGetBootstrapOk
    \/ \E o \in SyncConnectOutcomes : SyncConnectEnds(o)
    \/ SyncGetEventsOk
    \/ SyncReturn
    \/ \E w \in 1 .. MaxSyncCalls : SyncFrame(w)
    \/ \E w \in 1 .. MaxSyncCalls : SyncDrop(w)
    \/ \E n \in 1 .. MaxChanges : \E ch \in ChangePool(n) : SyncServerChange(ch)

SpecSync == InitSync /\ [][NextSync]_vars

----------------------------------------------------------------------------
(* Properties of the synchronization of the object graph *)

\* a step in which socket w delivers the frame of a change
FrameStep(w) ==
    /\ stream[w] # None
    /\ stream'[w] # None
    /\ stream'[w][1] = stream[w][1] + 1

\* the changes a listener was told of, as pairs of entity and update id
Told(l) == [i \in DOMAIN received[l] |-> << received[l][i].id, received[l][i].n >>]

C22_NoReEmission ==
    sy.honoured =>
        \A l \in Listeners : \A i, j \in DOMAIN received[l] :
           i # j => Told(l)[i] # Told(l)[j]

\* C23: after a connect whose cursor the server could not honour, no frame
\* is applied before a full Bootstrap fetch.
C23_RefetchBeforeFrames ==
    [][\A w \in 1 .. MaxSyncCalls : FrameStep(w) => ~sy.needs_refetch]_vars

\* update() installs the Bootstrap it fetched
InstallStep == sy.pc = "get_bootstrap" /\ sy'.pc # "get_bootstrap"

(* C34: the Bootstrap that update() installs is at least as new as every   *)
(* frame processed before: its last_update_id is not older than the one    *)
(* held until then, and its graph is the server's at that update.          *)
C34_InstallKeepsFrames ==
    [][(InstallStep /\ bootstrap # None) =>
          /\ bootstrap'[1].last_update_id >= bootstrap[1].last_update_id
          /\ bootstrap'[1].graph =
                GraphAt(srvlog, bootstrap'[1].last_update_id)]_vars

Messages == {"hello", "bye", "0123456789012345678901234567890"}

\* the fields of the NVR that dict_with_excludes() serializes
Fields == {"custom_messages", "camera_utilization"}

dict_with_excludes(obj) ==
    [ custom_messages    |-> obj.custom_messages,
      camera_utilization |-> obj.camera_utilization ]

\* the fields on which the object differs from the baseline, with their values
get_changed(data_before_changes, obj) ==
    LET now == dict_with_excludes(obj)
    IN  [f \in {g \in Fields : data_before_changes[g] # now[g]} |-> now[f]]

Contains(list, message) == \E i \in 1 .. Len(list) : list[i] = message

\* list.remove(): without the first occurrence of the message
Remove(list, message) ==
    LET i == CHOOSE j \in 1 .. Len(list) :
                 /\ list[j] = message
                 /\ \A k \in 1 .. j - 1 : list[k] # message
    IN  SubSeq(list, 1, i - 1) \o SubSeq(list, i + 1, Len(list))

\* custom_messages after .append(DoorbellText(message)) or .remove(...)
Mutated(list, op, message) ==
    IF op = "add" THEN Append(list, message) ELSE Remove(list, message)

(* data_before_changes is taken after the yield, not when the lock was     *)
(* taken                                                                   *)
TakenAfterYield_AtLock(at_lock, after_yield) == at_lock
TakenAfterYield(at_lock, after_yield) == after_yield

(* data_before_changes is taken before custom_messages is changed          *)
TakenBeforeChange_After(before_change, after_change) == after_change
TakenBeforeChange(before_change, after_change) == before_change

\* async with self._update_lock is entered: the coroutine sleeps for 0 seconds
SaveLocked(rec) ==
    [rec EXCEPT !.pc = "yield",
                !.woken = FALSE,
                !.ahead = Len(ready.frames),
                !.queued = ready.frames,
                !.at_lock = Some(dict_with_excludes(nvr)),
                !.steps = << "lock", "yield" >>]

(* add_custom_doorbell_message(message) and                                *)
(* remove_custom_doorbell_message(message), up to the first suspension     *)
SaveStart(c, op, message) ==
    /\ saves[c].pc = "idle"
    /\ saves[c].calls < MaxSaves
    /\ LET rec == [IdleSave EXCEPT !.op = op, !.message = message,
                                   !.calls = saves[c].calls + 1]
           bad == \/ op = "add" /\ Len(message) > MAX_MESSAGE_LENGTH
                  \/ op = "add" /\ Contains(nvr.custom_messages, message)
                  \/ op = "remove" /\ ~Contains(nvr.custom_messages, message)
       IN  IF bad
           THEN /\ saves' = [saves EXCEPT ![c] =
                                [rec EXCEPT !.pc = "done", !.ret = "BadRequest"]]
                /\ UNCHANGED _update_lock
           ELSE IF CanAcquire(_update_lock)
           THEN /\ saves' = [saves EXCEPT ![c] = SaveLocked(rec)]
                /\ _update_lock' = [_update_lock EXCEPT !.locked = TRUE]
           ELSE /\ saves' = [saves EXCEPT ![c] = [rec EXCEPT !.pc = "wait"]]
                /\ _update_lock' = [_update_lock EXCEPT
                                       !.waiters = Append(@, c)]
    /\ UNCHANGED << restOfSave, nvr, ready >>

\* a waiter woken by the release of the lock takes it
SaveWake(c) ==
    /\ saves[c].pc = "wait"
    /\ saves[c].woken
    /\ _update_lock' = [_update_lock EXCEPT
                           !.locked = TRUE,
                           !.waiters = SelectSeq(@, LAMBDA x : x # c)]
    /\ saves' = [saves EXCEPT ![c] = SaveLocked(@)]
    /\ UNCHANGED << restOfSave, nvr, ready >>

(* the coroutine resumes after the yield: baseline, local change, and      *)
(* save_device() up to the await of the PATCH; list.remove() raises when   *)
(* the message is gone, and async with releases the lock                   *)
SaveAfterYield(c) ==
    /\ saves[c].pc = "yield"
    /\ saves[c].ahead = 0
    /\ LET rec == saves[c]
           gone == rec.op = "remove" /\ ~Contains(nvr.custom_messages, rec.message)
           changed == [nvr EXCEPT !.custom_messages =
                                     Mutated(@, rec.op, rec.message)]
           data_before_changes ==
               TakenBeforeChange(
                   TakenAfterYield(rec.at_lock[1], dict_with_excludes(nvr)),
                   dict_with_excludes(changed))
       IN  IF gone
           THEN /\ nvr' = nvr
                /\ _update_lock' = Released(_update_lock)
                /\ saves' = WakeFirst(_update_lock,
                                [saves EXCEPT ![c] =
                                    [rec EXCEPT !.pc = "done",
                                                !.baseline = Some(dict_with_excludes(nvr)),
                                                !.steps = @ \o << "baseline" >>,
                                                !.ret = "ValueError"]])
           ELSE /\ nvr' = changed
                /\ saves' = [saves EXCEPT ![c] =
                                [rec EXCEPT !.pc = "patch",
                                            !.baseline = Some(data_before_changes),
                                            !.diff = Some(get_changed(data_before_changes, changed)),
                                            !.steps = @ \o << "baseline", "change", "save" >>]]
                /\ UNCHANGED _update_lock
    /\ UNCHANGED << restOfSave, ready >>

(* the response of the PATCH: save_device() returns and all_messages is    *)
(* rebuilt, or it raises; either way async with releases the lock          *)
SavePatchEnds(c, ok) ==
    /\ saves[c].pc = "patch"
    /\ nvr' = (IF ok
               THEN [nvr EXCEPT !.all_messages =
                                   update_all_messages(nvr.custom_messages)]
               ELSE nvr)
    /\ _update_lock' = Released(_update_lock)
    /\ saves' = WakeFirst(_update_lock,
                    [saves EXCEPT ![c] =
                        [@ EXCEPT !.pc = "done",
                                  !.at_end = Some(nvr'),
                                  !.steps = IF ok THEN @ \o << "rebuild" >> ELSE @,
                                  !.ret = IF ok THEN "ok" ELSE "error"]])
    /\ UNCHANGED << restOfSave, ready >>

\* the caller takes the result of its call
SaveReturn(c) ==
    /\ saves[c].pc = "done"
    /\ saves' = [saves EXCEPT ![c] = [IdleSave EXCEPT !.calls = saves[c].calls]]
    /\ UNCHANGED << restOfSave, nvr, _update_lock, ready >>

\* a frame for the NVR arrives and its handling is scheduled
SaveFrameScheduled ==
    /\ ready.scheduled < MaxFrames
    /\ ready' = [frames    |-> Append(ready.frames, ready.scheduled + 1),
                 scheduled |-> ready.scheduled + 1]
    /\ UNCHANGED << restOfSave, nvr, _update_lock, saves >>

(* the handler of the first scheduled frame runs: the frame changes        *)
(* camera_utilization; the coroutines that yielded behind it move up       *)
SaveFrameApplied ==
    /\ ready.frames # << >>
    /\ nvr' = [nvr EXCEPT !.camera_utilization = Head(ready.frames)]
    /\ ready' = [ready EXCEPT !.frames = Tail(@)]
    /\ saves' = [c \in AllCallers |->
                    [saves[c] EXCEPT !.ahead = IF @ > 0 THEN @ - 1 ELSE 0]]
    /\ UNCHANGED << restOfSave, _update_lock >>

NextSave ==
    \/ \E c \in AllCallers : \E op \in {"add", "remove"} :
           \E message \in Messages : SaveStart(c, op, message)
    \/ \E c \in AllCallers : SaveWake(c)
    \/ \E c \in AllCallers : SaveAfterYield(c)
    \/ \E c \in AllCallers : \E ok \in BOOLEAN : SavePatchEnds(c, ok)
    \/ \E c \in AllCallers : SaveReturn(c)
    \/ SaveFrameScheduled
    \/ SaveFrameApplied

SpecSave == InitClient /\ [][NextSave]_vars

(***************************************************************************)
(* Properties of the saves of the NVR                                      *)
(***************************************************************************)

\* the callers that hold the lock
Saving == {c \in AllCallers : saves[c].pc \in {"yield", "patch"}}

(* C26: the difference that a save of the custom doorbell messages sends   *)
(* holds the caller's change of custom_messages and nothing else, whatever *)
(* frames were applied between taking the lock and the PATCH response.     *)
C26_DiffIsOwnChange ==
    \A c \in AllCallers :
        saves[c].diff # None =>
            /\ DOMAIN saves[c].diff[1] = {"custom_messages"}
            /\ saves[c].diff[1].custom_messages =
                   Mutated(saves[c].baseline[1].custom_messages,
                           saves[c].op, saves[c].message)

\* a save ended whose yield and whose PATCH both saw a frame applied
C26_Witness ==
    \E c \in AllCallers :
        /\ saves[c].pc = "done"
        /\ saves[c].ret = "ok"
        /\ saves[c].baseline[1].camera_utilization #
               saves[c].at_lock[1].camera_utilization
        /\ saves[c].at_end[1].camera_utilization #
               saves[c].baseline[1].camera_utilization
        /\ DOMAIN saves[c].diff[1] = {"custom_messages"}

(* C27: under the lock a save yields once, then takes the baseline, then   *)
(* changes custom_messages, then saves, then rebuilds all_messages; every  *)
(* frame scheduled when the lock was taken is contained in the baseline;   *)
(* and no two saves hold the lock at once.                                 *)
C27_SaveOrder ==
    /\ Cardinality(Saving) <= 1
    /\ Saving # {} => _update_lock.locked
    /\ \A c \in AllCallers :
        /\ \E n \in 0 .. 6 :
               saves[c].steps =
                   SubSeq(<< "lock", "yield", "baseline", "change", "save",
                             "rebuild" >>, 1, n)
        /\ (saves[c].baseline # None /\ saves[c].queued # << >>) =>
               saves[c].baseline[1].camera_utilization >=
                   saves[c].queued[Len(saves[c].queued)]
        /\ (saves[c].pc = "done" /\ saves[c].ret = "ok") =>
               /\ Len(saves[c].steps) = 6
               /\ saves[c].at_end[1].all_messages =
                      update_all_messages(saves[c].at_end[1].custom_messages)

\* a save that found a frame scheduled has sent its PATCH while another waits
C27_Witness ==
    \E c, d \in AllCallers :
        /\ saves[c].pc = "patch"
        /\ saves[c].queued # << >>
        /\ saves[c].baseline[1].camera_utilization #
               saves[c].at_lock[1].camera_utilization
        /\ saves[d].pc = "wait"

(* C39: custom_messages never holds the same message twice: an add of a    *)
(* message that is there, or that another call is adding, fails with       *)
(* BadRequest and leaves the list as it is.                                *)
C39_NoDuplicateMessage ==
    \A i, j \in 1 .. Len(nvr.custom_messages) :
        i # j => nvr.custom_messages[i] # nvr.custom_messages[j]

====
